---------------------------- MODULE Spec2Model ----------------------------
(***************************************************************************)
(* A model of the HTTP client and the reconciliation handlers of the      *)
(* terraform-provider-thecloud repository.                                *)
(*                                                                         *)
(*   - the client (internal/client/client.go): do, handleError,           *)
(*     decodeResponse and the per-entity Create / Get / Delete operations *)
(*     built on them, with the retrying transport NewClient configures;   *)
(*   - the scaling-group Delete handler and its polling loop              *)
(*     (internal/resources/scaling_group.go);                             *)
(*   - the Create / Read handlers of the resources that hold a sensitive  *)
(*     field: Secret, API key, Database, Cache;                           *)
(*   - the Create / Read / Update / Delete / ImportState handlers of the  *)
(*     resources tracked by id, and of the association resources (load-   *)
(*     balancer target, security-group rule, Elastic IP association,      *)
(*     global-LB endpoint);                                               *)
(*   - the provider's Configure.                                          *)
(***************************************************************************)
EXTENDS Integers, Sequences, FiniteSets, TLC

VARIABLES
    client,        \* the Client struct: Endpoint and APIKey
    wire,          \* the exchanges of the last direct client call or DELETE, one per attempt
    ret,           \* what the last client call returned to its caller, NoCall when idle
    pc,            \* position of ScalingGroupResource.Delete
    now,           \* seconds elapsed since Delete created its ticker
    nextTick,      \* the second at which the ticker fires next
    tickBuf,       \* TRUE when a tick waits in ticker.C (a channel of capacity 1)
    cancelled,     \* TRUE once the context handed to Delete is cancelled
    reads,         \* polling GetScalingGroup calls issued by this Delete
    presentReads,  \* those of them that returned a non-nil group
    readEnd,       \* the second at which the polling Read in flight returns
    slowReads,     \* polling Reads so far that lasted LongRead seconds
    sgRemote,      \* the scaling group on the server: "present" or "gone"
    diags,         \* resp.Diagnostics of the handler call running or just finished
    held,          \* the state the orchestrator holds for each resource type
    atCreate,      \* for each resource type, the sensitive value its Create stored
    lastOp,        \* the handler step that ran last, with what it found
    tfstate,       \* the state the orchestrator holds for one resource instance
    assoc,         \* the state the orchestrator holds for one association resource
    provider,      \* the provider: its configuration inputs and what Configure handed out
    onServer       \* the resource of tfstate as the server has it

vars == << client, wire, ret, pc, now, nextTick, tickBuf, cancelled, reads,
           presentReads, readEnd, slowReads, sgRemote, diags, held, atCreate, lastOp,
           tfstate, assoc, provider, onServer >>

clientVars == << client, wire, ret >>
pollVars ==
    << pc, now, nextTick, tickBuf, cancelled, reads, presentReads, readEnd, slowReads, sgRemote >>
heldVars == << held, atCreate, lastOp >>
tfVars == << tfstate, assoc, provider, onServer >>

-----------------------------------------------------------------------------
(* Values the model draws its inputs from.                                 *)

Endpoints == {"http://localhost:8080"}

APIKeys == {"test-key", "other-key"}

Ids == {"id-1", "id-2"}

Names == {"test-vpc"}

Messages == {"invalid cidr", "quota exceeded"}

\* the entity types that have a Get operation
GetKinds ==
    {"VPC", "Instance", "Volume", "SecurityGroup", "LoadBalancer", "Secret",
     "ScalingGroup", "Subnet", "Snapshot", "Database", "ElasticIP", "DNSZone",
     "DNSRecord", "Cluster", "GlobalLB"}

\* the entity types that have a Create operation decoding the response
CreateKinds == (GetKinds \ {"ElasticIP"}) \cup {"APIKey"}

\* the entity types that have a Delete operation
DeleteKinds == GetKinds \cup {"APIKey"}

\* the collection path of each entity type
CollectionPath(kind) ==
    CASE kind = "VPC" -> "/vpcs"
      [] kind = "Instance" -> "/instances"
      [] kind = "Volume" -> "/volumes"
      [] kind = "SecurityGroup" -> "/security-groups"
      [] kind = "LoadBalancer" -> "/lb"
      [] kind = "Secret" -> "/secrets"
      [] kind = "APIKey" -> "/auth/keys"
      [] kind = "ScalingGroup" -> "/autoscaling/groups"
      [] kind = "Subnet" -> "/subnets"
      [] kind = "Snapshot" -> "/snapshots"
      [] kind = "Database" -> "/databases"
      [] kind = "ElasticIP" -> "/elastic-ips"
      [] kind = "DNSZone" -> "/dns/zones"
      [] kind = "DNSRecord" -> "/dns/records"
      [] kind = "Cluster" -> "/clusters"
      [] kind = "GlobalLB" -> "/global-lb"

\* fmt.Sprintf("<collection>/%s", id)
SingletonPath(kind, id) == << CollectionPath(kind), "/", id >>

-----------------------------------------------------------------------------
(* HTTP responses.  A body is empty, not JSON, or a JSON object with an    *)
(* optional "data" and an optional "error" member.                         *)

RetryMax == 5

\* statuses the retrying transport hands back to do
FinalStatuses == {200, 201, 204, 400, 404, 501}

\* what makes the retrying transport try again: a network error or a 5xx
Transients == {"neterr", "503"}

Absent == [t |-> "absent"]

JsonNull == [t |-> "null"]

\* valid JSON of the wrong type for its destination (a number, say)
Mistyped == [t |-> "mistyped"]

\* "data" as a JSON object: any subset of the entity's members, as strings
DataObjects ==
    { [t |-> "object", fields |-> f] :
        f \in { [x \in S |-> IF x = "id" THEN "id-1" ELSE "test-vpc"] :
                    S \in {{}, {"id"}, {"id", "name"}} } }

\* a load-balancer target as ListLBTargets decodes it
Targets == { [instance_id |-> "i-1", port |-> 80, weight |-> 50] }

\* "data" as a JSON array of targets
DataLists == { [t |-> "list", items |-> << >>] } \cup { [t |-> "list", items |-> << x >>] : x \in Targets }

DataShapes == {Absent, JsonNull, Mistyped} \cup DataObjects \cup DataLists

\* "message" inside an error object: missing, not a string, or a string
MessageShapes == {Absent, Mistyped} \cup { [t |-> "string", text |-> m] : m \in Messages }

\* "error": absent, null, a bare string, or an object {type, message, code}
ErrorShapes ==
    {Absent, JsonNull}
      \cup { [t |-> "string", text |-> m] : m \in Messages }
      \cup { [t |-> "object", type |-> "invalid_input", message |-> m, code |-> "400"] :
                m \in MessageShapes }

Bodies ==
    { [kind |-> "empty"], [kind |-> "garbage"] }
      \cup { [kind |-> "json", data |-> d, error |-> e] :
                d \in DataShapes, e \in ErrorShapes }

Responses == { [status |-> s, body |-> b] : s \in FinalStatuses, b \in Bodies }

\* the answers drawn for the second call of a composite read
ListResponses ==
    { r \in Responses :
        /\ r.status \in {200, 400, 404}
        /\ r.body.kind = "json" =>
             /\ r.body.data \in DataLists \cup {Absent, Mistyped}
             /\ r.body.error \in {Absent, [t |-> "string", text |-> "quota exceeded"]} }

\* what the server does with one logical call: fail transiently nFail times,
\* then answer with final
ServerPlans ==
    { [nFail |-> n, transient |-> k, final |-> r] :
        n \in {0, 1, RetryMax, RetryMax + 1}, k \in Transients, r \in Responses }

\* the answers drawn for the first call of a composite read
FirstPlans == { p \in ServerPlans : p.nFail \in {0, RetryMax + 1} /\ p.transient = "neterr" }

ListPlans ==
    { [nFail |-> n, transient |-> "neterr", final |-> r] :
        n \in {0, RetryMax + 1}, r \in ListResponses }

-----------------------------------------------------------------------------
(* Errors.  The text of an error is the sequence of pieces fmt.Sprintf or  *)
(* fmt.Errorf joins.                                                       *)

NoErr == [kind |-> "none", text |-> << >>]

IsErr(e) == e.kind # "none"

Contains(text, piece) == \E i \in 1..Len(text) : text[i] = piece

\* (e *APIError) Error(): "[%s] %s (code: %s)"
APIErrorText(e) == << "[", e.type, "] ", e.message, " (code: ", e.code, ")" >>

\* the members of an entity struct the model follows; "secret" is the member
\* that carries the sensitive value of the type (Secret.Value, APIKey.Key,
\* the connection string of a database or cache)
EntityMembers == {"id", "name", "secret"}

\* the zero value of an entity struct
ZeroEntity == [f \in EntityMembers |-> ""]

Nil == [nil |-> TRUE]

\* json.Unmarshal that leaves every member at its zero value
UnmarshalEntity_Zero(obj) == [ f \in EntityMembers |-> "" ]

\* json.Unmarshal of a data object into an entity struct: a member that is
\* missing leaves the field at its zero value; "targets" is the member only
\* the load balancer has
UnmarshalEntity(obj) ==
    LET e == [ f \in EntityMembers |->
                 IF f \in DOMAIN obj.fields THEN obj.fields[f] ELSE "" ]
    IN  IF "targets" \in DOMAIN obj.fields
            THEN e @@ [targets |-> obj.fields.targets]
            ELSE e

-----------------------------------------------------------------------------
(* The client: internal/client/client.go                                   *)

\* NewClient: the client holds the endpoint and the key it was given
NewClient(endpoint, apiKey) == [Endpoint |-> endpoint, APIKey |-> apiKey]

\* c.BuildURL(path): fmt.Sprintf("%s%s", c.Endpoint, path)
BuildURL(c, path) == << c.Endpoint >> \o path

\* BuildRequest with the key header left out
BuildRequest_NoKey(c, method, path) ==
    [ method |-> method,
      url |-> BuildURL(c, path),
      header |-> [ XAPIKey |-> "", ContentType |-> "application/json" ] ]

\* the request do builds: http.NewRequestWithContext, then the two headers
BuildRequest(c, method, path) ==
    [ method |-> method,
      url |-> BuildURL(c, path),
      header |-> [ XAPIKey |-> c.APIKey, ContentType |-> "application/json" ] ]

\* what the server (or the network) did with one attempt
NetErr == [kind |-> "neterr"]

Answer(resp) == [kind |-> "resp", resp |-> resp]

TransientAnswer(k) ==
    IF k = "neterr" THEN NetErr
    ELSE Answer([status |-> 503, body |-> [kind |-> "empty"]])

\* c.HTTPClient.Do(req) on the retrying transport NewClient sets up: an attempt
\* that fails transiently is repeated, RetryMax times at most; the transport then
\* gives up with an error.  The same request goes out on every attempt.
HTTPClientDo(req, plan) ==
    LET failed == [req |-> req, answer |-> TransientAnswer(plan.transient)]
    IN  IF plan.nFail > RetryMax
            THEN [ ok |-> FALSE, sent |-> [i \in 1..(RetryMax + 1) |-> failed] ]
            ELSE [ ok |-> TRUE, resp |-> plan.final,
                   sent |-> [i \in 1..plan.nFail |-> failed]
                              \o << [req |-> req, answer |-> Answer(plan.final)] >> ]

StatusText(status) == ToString(status)

\* errUnexpectedStatus
UnexpectedStatus(status) ==
    [ kind |-> "unexpected_status",
      text |-> << "unexpected status code: ", StatusText(status) >> ]

\* the server's message without the status in front
StatusError_NoStatus(status, msg) == [ kind |-> "status_message", text |-> << msg >> ]

\* fmt.Errorf("[%d] %s", resp.StatusCode, msg)
StatusError(status, msg) ==
    [ kind |-> "status_message", text |-> << "[", StatusText(status), "] ", msg >> ]

\* handleError that drops the server's message
handleError_Generic(resp) == UnexpectedStatus(resp.status)

\* handleError: the body's "error" as a bare string or as an object with a
\* string "message"; anything else is the generic error
handleError(resp) ==
    IF resp.body.kind = "json" /\ resp.body.error.t \notin {"absent", "null"}
        THEN CASE resp.body.error.t = "string" ->
                      StatusError(resp.status, resp.body.error.text)
               [] resp.body.error.t = "object" /\ resp.body.error.message.t = "string" ->
                      StatusError(resp.status, resp.body.error.message.text)
               [] OTHER -> UnexpectedStatus(resp.status)
        ELSE UnexpectedStatus(resp.status)

DecodeError == [ kind |-> "decode", text |-> << "failed to decode response: ", "json" >> ]

UnmarshalError == [ kind |-> "unmarshal", text |-> << "failed to unmarshal data: ", "json" >> ]

\* the envelope's "error" decoded into *APIError: a missing member is ""
EnvelopeError(e) ==
    [ kind |-> "api",
      text |-> APIErrorText([ type |-> e.type, code |-> e.code,
                              message |-> IF e.message.t = "string"
                                              THEN e.message.text ELSE "" ]) ]

\* decodeResponse that gives the zero value for a body it cannot decode
decodeResponse_ZeroOnFailure(resp, dest) ==
    [ err |-> NoErr, v |-> IF dest = "list" THEN << >> ELSE ZeroEntity ]

\* decodeResponse(resp, v) with v a pointer to a zero value of type dest
\* ("entity" or "list"): the error, and the value v holds afterwards
decodeResponse(resp, dest) ==
    LET zero == IF dest = "list" THEN << >> ELSE ZeroEntity
        body == resp.body
    IN  IF body.kind # "json"
            THEN [ err |-> DecodeError, v |-> zero ]
        ELSE IF body.error.t = "string"
                  \/ (body.error.t = "object" /\ body.error.message.t = "mistyped")
            THEN [ err |-> DecodeError, v |-> zero ]
        ELSE IF body.error.t = "object"
            THEN [ err |-> EnvelopeError(body.error), v |-> zero ]
        ELSE IF body.data.t \in {"absent", "null"}
            THEN [ err |-> NoErr, v |-> zero ]
        ELSE IF body.data.t = "object" /\ dest = "entity"
            THEN [ err |-> NoErr, v |-> UnmarshalEntity(body.data) ]
        ELSE IF body.data.t = "list" /\ dest = "list"
            THEN [ err |-> NoErr, v |-> body.data.items ]
        ELSE [ err |-> UnmarshalError, v |-> zero ]

TransportError == [ kind |-> "transport", text |-> << "giving up after attempts" >> ]

\* do without the early return on 404: a 404 is handled like any status >= 400
do_404IsError(c, method, path, dest, plan) ==
    LET req == BuildRequest(c, method, path)
        out == HTTPClientDo(req, plan)
        zero == IF dest = "list" THEN << >> ELSE ZeroEntity
    IN  IF ~out.ok
            THEN [ status |-> 0, err |-> TransportError, v |-> zero, sent |-> out.sent ]
        ELSE IF out.resp.status >= 400
            THEN [ status |-> out.resp.status, err |-> handleError(out.resp),
                   v |-> zero, sent |-> out.sent ]
        ELSE IF dest # "none"
            THEN LET d == decodeResponse(out.resp, dest)
                 IN  [ status |-> out.resp.status, err |-> d.err, v |-> d.v,
                       sent |-> out.sent ]
        ELSE [ status |-> out.resp.status, err |-> NoErr, v |-> zero, sent |-> out.sent ]

\* do(ctx, method, path, body, v): dest is "none" when v is nil.  The result
\* is the status and error do returns, what v holds, and the requests sent.
do(c, method, path, dest, plan) ==
    LET req == BuildRequest(c, method, path)
        out == HTTPClientDo(req, plan)
        zero == IF dest = "list" THEN << >> ELSE ZeroEntity
    IN  IF ~out.ok
            THEN [ status |-> 0, err |-> TransportError, v |-> zero, sent |-> out.sent ]
        ELSE IF out.resp.status = 404
            THEN [ status |-> 404, err |-> NoErr, v |-> zero, sent |-> out.sent ]
        ELSE IF out.resp.status >= 400
            THEN [ status |-> out.resp.status, err |-> handleError(out.resp),
                   v |-> zero, sent |-> out.sent ]
        ELSE IF dest # "none"
            THEN LET d == decodeResponse(out.resp, dest)
                 IN  [ status |-> out.resp.status, err |-> d.err, v |-> d.v,
                       sent |-> out.sent ]
        ELSE [ status |-> out.resp.status, err |-> NoErr, v |-> zero, sent |-> out.sent ]

\* the path a Create operation posts to
CreatePath(kind) ==
    CASE kind = "Subnet" -> << "/vpcs/", "vpc-1", "/subnets" >>
      [] kind = "DNSRecord" -> << "/dns/zones/", "zone-1", "/records" >>
      [] OTHER -> << CollectionPath(kind) >>

NoCall == [op |-> "none"]

Returned(op, kind, id, entity, err, calls) ==
    [ op |-> op, kind |-> kind, id |-> id, entity |-> entity, err |-> err, calls |-> calls ]

\* CreateVPC and the other Create operations: POST, decode into the entity
CreateEntity(c, kind, plan) ==
    LET r == do(c, "POST", CreatePath(kind), "entity", plan)
    IN  [ ret |-> IF IsErr(r.err)
                      THEN Returned("Create", kind, "", Nil, r.err, 1)
                      ELSE Returned("Create", kind, "", r.v, NoErr, 1),
          sent |-> r.sent ]

\* a Get that takes an error for absence
GetEntity_ErrorIsAbsence(c, kind, id, plan) ==
    LET r == do(c, "GET", SingletonPath(kind, id), "entity", plan)
    IN  [ ret |-> IF IsErr(r.err) \/ r.status = 404 THEN Returned("Get", kind, id, Nil, NoErr, 1)
                  ELSE Returned("Get", kind, id, r.v, NoErr, 1),
          sent |-> r.sent ]

\* GetVPC and the other Get operations of one call: GET, 404 is (nil, nil)
GetEntity(c, kind, id, plan) ==
    LET r == do(c, "GET", SingletonPath(kind, id), "entity", plan)
    IN  [ ret |-> IF IsErr(r.err) THEN Returned("Get", kind, id, Nil, r.err, 1)
                  ELSE IF r.status = 404 THEN Returned("Get", kind, id, Nil, NoErr, 1)
                  ELSE Returned("Get", kind, id, r.v, NoErr, 1),
          sent |-> r.sent ]

\* ListLBTargets: GET /lb/{id}/targets decoded into a slice
ListLBTargets(c, lbID, plan) ==
    LET r == do(c, "GET", << "/lb/", lbID, "/targets" >>, "list", plan)
    IN  [ targets |-> IF IsErr(r.err) THEN << >> ELSE r.v, err |-> r.err, sent |-> r.sent ]

\* a GetLoadBalancer that returns the load balancer without targets when the
\* listing fails
GetLoadBalancer_KeepsLBOnListError(c, id, plan, listPlan) ==
    LET r == do(c, "GET", SingletonPath("LoadBalancer", id), "entity", plan)
        l == ListLBTargets(c, id, listPlan)
    IN  IF IsErr(r.err)
            THEN [ ret |-> Returned("Get", "LoadBalancer", id, Nil, r.err, 1), sent |-> r.sent ]
        ELSE IF r.status = 404
            THEN [ ret |-> Returned("Get", "LoadBalancer", id, Nil, NoErr, 1), sent |-> r.sent ]
        ELSE [ ret |-> Returned("Get", "LoadBalancer", id,
                                [ id |-> r.v.id, name |-> r.v.name, targets |-> l.targets ],
                                NoErr, 2),
               sent |-> r.sent \o l.sent ]

\* GetLoadBalancer: the load balancer, then its targets
GetLoadBalancer(c, id, plan, listPlan) ==
    LET r == do(c, "GET", SingletonPath("LoadBalancer", id), "entity", plan)
        l == ListLBTargets(c, id, listPlan)
    IN  IF IsErr(r.err)
            THEN [ ret |-> Returned("Get", "LoadBalancer", id, Nil, r.err, 1), sent |-> r.sent ]
        ELSE IF r.status = 404
            THEN [ ret |-> Returned("Get", "LoadBalancer", id, Nil, NoErr, 1), sent |-> r.sent ]
        ELSE IF IsErr(l.err)
            THEN [ ret |-> Returned("Get", "LoadBalancer", id, Nil, l.err, 2),
                   sent |-> r.sent \o l.sent ]
        ELSE [ ret |-> Returned("Get", "LoadBalancer", id,
                                [ id |-> r.v.id, name |-> r.v.name, targets |-> l.targets ],
                                NoErr, 2),
               sent |-> r.sent \o l.sent ]

\* a Delete that asks do to decode the response body
DeleteEntity_Decodes(c, kind, id, plan) ==
    LET r == do(c, "DELETE", SingletonPath(kind, id), "entity", plan)
    IN  [ ret |-> Returned("Delete", kind, id, Nil, r.err, 1), sent |-> r.sent ]

\* DeleteVPC and the other Delete operations: DELETE with no destination
DeleteEntity(c, kind, id, plan) ==
    LET r == do(c, "DELETE", SingletonPath(kind, id), "none", plan)
    IN  [ ret |-> Returned("Delete", kind, id, Nil, r.err, 1), sent |-> r.sent ]

-----------------------------------------------------------------------------
(* The client before do was introduced (one attempt, no envelope).         *)

LegacyKinds == {"VPC", "Instance", "Volume", "SecurityGroup"}

\* DoRequest: set the two headers, send once
DoRequest(c, req) ==
    [ req EXCEPT !.header = [ XAPIKey |-> c.APIKey, ContentType |-> "application/json" ] ]

\* http.NewRequest(method, c.BuildURL(path), body): no header of the client yet
LegacyNewRequest(c, method, path) ==
    [ method |-> method, url |-> BuildURL(c, path),
      header |-> [ XAPIKey |-> "", ContentType |-> "" ] ]

\* json.NewDecoder(resp.Body).Decode(&vpc): the body itself is the entity
LegacyDecode(body) ==
    IF body.kind # "json" THEN [ err |-> DecodeError, v |-> ZeroEntity ]
    ELSE [ err |-> NoErr, v |-> ZeroEntity ]

\* the CreateVPC, GetVPC and DeleteVPC of that client; answer is "neterr" or
\* a response
LegacyCall(c, method, kind, id, answer) ==
    LET path == IF method = "POST" THEN << CollectionPath(kind) >> ELSE SingletonPath(kind, id)
        req == DoRequest(c, LegacyNewRequest(c, method, path))
        op == CASE method = "POST" -> "LegacyCreate"
                [] method = "GET" -> "LegacyGet"
                [] OTHER -> "LegacyDelete"
        expect == CASE method = "POST" -> {201}
                    [] method = "GET" -> {200}
                    [] OTHER -> {200, 204}
        result ==
            IF answer.kind = "neterr" THEN Returned(op, kind, id, Nil, TransportError, 1)
            ELSE IF method = "GET" /\ answer.resp.status = 404
                THEN Returned(op, kind, id, Nil, NoErr, 1)
            ELSE IF answer.resp.status \notin expect
                THEN Returned(op, kind, id, Nil, UnexpectedStatus(answer.resp.status), 1)
            ELSE IF method = "DELETE" THEN Returned(op, kind, id, Nil, NoErr, 1)
            ELSE LET d == LegacyDecode(answer.resp.body)
                 IN  IF IsErr(d.err) THEN Returned(op, kind, id, Nil, d.err, 1)
                     ELSE Returned(op, kind, id, d.v, NoErr, 1)
    IN  [ ret |-> result, sent |-> << [req |-> req, answer |-> answer] >> ]

LegacyAnswers ==
    { NetErr } \cup
    { Answer(r) : r \in { x \in Responses : x.body.kind # "json" \/ x.body.error = Absent } }

-----------------------------------------------------------------------------
(* Initial state: a client just constructed, no handler running.           *)

ResourceTypes == {"secret", "api_key", "database", "cache"}

Removed == [tracked |-> FALSE]

NoOp == [op |-> "none"]

InitClient ==
    /\ client \in { NewClient(e, k) : e \in Endpoints, k \in APIKeys }
    /\ wire = << >>
    /\ ret = NoCall

InitPoll ==
    /\ pc = "idle"
    /\ now = 0
    /\ nextTick = 0
    /\ tickBuf = FALSE
    /\ cancelled = FALSE
    /\ reads = 0
    /\ presentReads = 0
    /\ readEnd = 0
    /\ slowReads = 0
    /\ sgRemote = "present"

InitHeld ==
    /\ held = [r \in ResourceTypes |-> Removed]
    /\ atCreate = [r \in ResourceTypes |-> ""]
    /\ lastOp = NoOp

\* a provider attribute: null, unknown or a known string
NullAttr == [t |-> "null"]

UnknownAttr == [t |-> "unknown"]

StringValue(v) == [t |-> "value", v |-> v]

\* the provider after a Configure that handed the client out; no resource is
\* tracked yet
\* nothing is known of the server's side
NoRemote == [exists |-> FALSE]

InitTerraform ==
    /\ tfstate = Removed
    /\ onServer = NoRemote
    /\ assoc = Removed
    /\ provider = [ endpoint |-> StringValue(client.Endpoint),
                    api_key |-> StringValue(client.APIKey),
                    env |-> [THECLOUD_ENDPOINT |-> "", THECLOUD_API_KEY |-> ""],
                    handed |-> TRUE ]

Init == InitClient /\ InitPoll /\ InitHeld /\ InitTerraform /\ diags = << >>

-----------------------------------------------------------------------------
(* Client calls, one action per operation; Return hands the result over.   *)

Finish(out) ==
    /\ ret' = out.ret
    /\ wire' = out.sent
    /\ UNCHANGED << client, pollVars, heldVars, tfVars, diags >>

CallCreate ==
    /\ ret = NoCall
    /\ \E kind \in CreateKinds, plan \in ServerPlans :
          Finish(CreateEntity(client, kind, plan))

CallGet ==
    /\ ret = NoCall
    /\ \E kind \in GetKinds \ {"LoadBalancer"}, id \in Ids, plan \in ServerPlans :
          Finish(GetEntity(client, kind, id, plan))

CallGetLoadBalancer ==
    /\ ret = NoCall
    /\ \E id \in Ids, plan \in FirstPlans, listPlan \in ListPlans :
          Finish(GetLoadBalancer(client, id, plan, listPlan))

CallDelete ==
    /\ ret = NoCall
    /\ \E kind \in DeleteKinds, id \in Ids, plan \in ServerPlans :
          Finish(DeleteEntity(client, kind, id, plan))

CallLegacy ==
    /\ ret = NoCall
    /\ \E method \in {"POST", "GET", "DELETE"}, kind \in LegacyKinds, id \in Ids,
          answer \in LegacyAnswers :
          Finish(LegacyCall(client, method, kind, id, answer))

Return ==
    /\ ret # NoCall
    /\ ret' = NoCall
    /\ wire' = << >>
    /\ UNCHANGED << client, pollVars, heldVars, tfVars, diags >>

NextClient ==
    \/ CallCreate
    \/ CallGet
    \/ CallGetLoadBalancer
    \/ CallDelete
    \/ CallLegacy
    \/ Return

SpecClient == Init /\ [][NextClient]_vars

-----------------------------------------------------------------------------
(* Properties of the client.                                               *)

\* the exchanges of the last call's first request (a composite read sends a
\* second one, to another path)
FirstCallExchanges == SelectSeq(wire, LAMBDA x : x.req.url = wire[1].req.url)

\* the response that ended the last call's first request, if any
FirstCallAnswered(statuses) ==
    /\ Len(wire) > 0
    /\ LET xs == FirstCallExchanges
       IN  /\ xs[Len(xs)].answer.kind = "resp"
           /\ xs[Len(xs)].answer.resp.status \in statuses

FirstCallBody == FirstCallExchanges[Len(FirstCallExchanges)].answer.resp.body

\* C1: a Get operation whose GET the server answered with HTTP 404 returns
\* (nil, nil): no entity and no error, whatever the response body holds.
C1_Get404ReturnsNilNil ==
    (ret.op \in {"Get", "LegacyGet"} /\ FirstCallAnswered({404}))
        => (ret.entity = Nil /\ ret.err = NoErr)

\* a load balancer read answered 404 with a body that carries an entity
C1_Witness ==
    /\ ret.op = "Get"
    /\ ret.kind = "LoadBalancer"
    /\ FirstCallAnswered({404})
    /\ FirstCallBody.kind = "json"
    /\ FirstCallBody.data.t = "object"
    /\ "id" \in DOMAIN FirstCallBody.data.fields
    /\ ret.entity = Nil

\* C2: a Create operation whose POST the server answered with HTTP 400 and a
\* structured error object {type, message, code} returns no entity and an
\* error whose text contains the server's message.
C2_Create400CarriesMessage ==
    \A m \in Messages :
        ( /\ ret.op = "Create"
          /\ FirstCallAnswered({400})
          /\ FirstCallBody.kind = "json"
          /\ FirstCallBody.error.t = "object"
          /\ FirstCallBody.error.message = [t |-> "string", text |-> m] )
        => ( /\ ret.entity = Nil
             /\ IsErr(ret.err)
             /\ Contains(ret.err.text, m) )

\* CreateVPC answered 400 {"error": {type, message: "invalid cidr", code}}
C2_Witness ==
    /\ ret.op = "Create"
    /\ ret.kind = "VPC"
    /\ FirstCallAnswered({400})
    /\ FirstCallBody.kind = "json"
    /\ FirstCallBody.error.t = "object"
    /\ FirstCallBody.error.message = [t |-> "string", text |-> "invalid cidr"]
    /\ Contains(ret.err.text, "invalid cidr")

HeadersOfClient ==
    \A i \in 1..Len(wire) :
        /\ wire[i].req.header.XAPIKey = client.APIKey
        /\ wire[i].req.header.ContentType = "application/json"

\* C3: every request on the wire, whatever its method and on every attempt,
\* carries X-API-Key equal to the client's key and Content-Type
\* application/json, and no step changes the client's key or endpoint.
C3_EveryRequestCarriesHeaders == [](HeadersOfClient) /\ [][client' = client]_vars

\* a DELETE sent again after transient failures, and a request of the client
\* that has no retrying transport
C3_WitnessRetried ==
    /\ Len(wire) = RetryMax + 1
    /\ wire[1].req.method = "DELETE"
    /\ wire[Len(wire)].answer.kind = "resp"
    /\ wire[Len(wire)].req.header.XAPIKey = client.APIKey

\* C4: a Delete operation whose DELETE the server answered with 200, 204 or
\* 404 returns nil, with any body or none: the same result in the three cases.
C4_DeleteAbsentOrPresentIsNil ==
    (ret.op = "Delete" /\ FirstCallAnswered({200, 204, 404})) => ret.err = NoErr

\* a Delete answered 404 with an empty body (the resource already gone)
C4_Witness ==
    /\ ret.op = "Delete"
    /\ FirstCallAnswered({404})
    /\ FirstCallBody.kind = "empty"
    /\ ret.err = NoErr

-----------------------------------------------------------------------------
(* ScalingGroupResource.Delete: the DELETE, then the polling loop.         *)
(* internal/resources/scaling_group.go                                     *)

\* time.NewTicker(5 * time.Second)
TickSeconds == 5

\* context.WithTimeout(ctx, 10*time.Minute)
TimeoutSeconds == 600

\* a polling Read that lasts longer than one tick interval
LongRead == 7

\* the most polling Reads of one Delete that the model lets last LongRead seconds
MaxSlowReads == 2

\* a polling Read returns at once or after LongRead seconds
ReadDurations == {0, LongRead}

\* the id in the state handed to Delete
sgID == "id-1"

PollTerminal == {"Completed", "TimedOut", "Errored"}

ErrorDiag(summary, detail) == [severity |-> "error", summary |-> summary, detail |-> detail]

\* the body of a 200 that carries the group
GroupBody ==
    [ kind |-> "json", error |-> Absent,
      data |-> [t |-> "object", fields |-> [x \in {"id", "name"} |->
                                               IF x = "id" THEN "id-1" ELSE "test-vpc"]] ]

\* how the server treats the DELETE
DeletePlans ==
    { [nFail |-> 0, transient |-> "neterr", final |-> r] :
        r \in { [status |-> 200, body |-> [kind |-> "json", data |-> Absent, error |-> Absent]],
                [status |-> 204, body |-> [kind |-> "empty"]],
                [status |-> 404, body |-> [kind |-> "empty"]],
                [status |-> 400, body |-> [kind |-> "json", data |-> Absent,
                                           error |-> [t |-> "string", text |-> "quota exceeded"]]] } }
      \cup { [nFail |-> RetryMax + 1, transient |-> "503",
              final |-> [status |-> 204, body |-> [kind |-> "empty"]]] }

\* how the server treats a polling GET while the group is in state remote:
\* it answers for the group, or the call fails
PollPlans(remote) ==
    { [nFail |-> n, transient |-> "503",
       final |-> IF remote = "gone"
                     THEN [status |-> 404, body |-> [kind |-> "empty"]]
                     ELSE [status |-> 200, body |-> GroupBody]] : n \in {0, 1, RetryMax + 1} }
      \cup { [nFail |-> 0, transient |-> "neterr",
              final |-> [status |-> 200, body |-> [kind |-> "garbage"]]],
             [nFail |-> 0, transient |-> "neterr",
              final |-> [status |-> 400,
                         body |-> [kind |-> "json", data |-> Absent,
                                   error |-> [t |-> "string", text |-> "quota exceeded"]]]] }

\* a call made with a context that is already cancelled never reaches the server
CancelledCall == [nFail |-> RetryMax + 1, transient |-> "neterr",
                  final |-> [status |-> 204, body |-> [kind |-> "empty"]]]

\* the first tick of a ticker created at second start
FirstTick_Immediate(start) == start

FirstTick(start) == start + TickSeconds

\* timeoutCtx.Done() is ready: the deadline passed or the parent was cancelled
DoneReady == cancelled \/ now >= TimeoutSeconds

\* the ticker while the clock moves from now to t: a tick that fires goes into
\* ticker.C unless one already waits there
TickerAt(t) ==
    IF nextTick <= t
        THEN [ buf |-> TRUE,
               next |-> nextTick + TickSeconds * (((t - nextTick) \div TickSeconds) + 1) ]
        ELSE [ buf |-> tickBuf, next |-> nextTick ]

\* what the polling loop does with a Read that keeps polling on absence
AfterRead_IgnoresAbsence(r) ==
    IF IsErr(r.err) THEN "Errored" ELSE "select"

\* what the polling loop does with a Read that tries again after an error
AfterRead_RetriesOnError(r) ==
    IF IsErr(r.err) THEN "select"
    ELSE IF r.entity = Nil THEN "Completed"
    ELSE "select"

\* what the polling loop does with the Read's result: lines 249-256
AfterRead(r) ==
    IF IsErr(r.err) THEN "Errored"
    ELSE IF r.entity = Nil THEN "Completed"
    ELSE "select"

ReadResult(r) ==
    IF IsErr(r.err) THEN "error"
    ELSE IF r.entity = Nil THEN "absent"
    ELSE "present"

\* a Delete that goes on to poll after a DELETE that failed
SGDeleteBegin_PollsAfterFailure ==
    /\ pc = "idle"
    /\ \E plan \in DeletePlans :
          LET out == DeleteEntity(client, "ScalingGroup", sgID, plan)
          IN  /\ pc' = "select"
              /\ nextTick' = FirstTick(now)
              /\ diags' = IF IsErr(out.ret.err)
                              THEN << ErrorDiag("errClient",
                                        << "Unable to delete scaling group, got error: " >>
                                           \o out.ret.err.text) >>
                              ELSE << >>
    /\ lastOp' = [op |-> "DeleteScalingGroup"]
    /\ UNCHANGED << clientVars, tfVars, now, tickBuf, cancelled, reads, presentReads, readEnd,
                    slowReads, sgRemote, held, atCreate >>

\* Delete up to the loop: DeleteScalingGroup, an error diagnostic and return
\* if it fails, else the ticker and the deadline
SGDeleteBegin ==
    /\ pc = "idle"
    /\ \E plan \in DeletePlans :
          LET out == DeleteEntity(client, "ScalingGroup", sgID, plan)
          IN  /\ IF IsErr(out.ret.err)
                    THEN /\ pc' = "DeleteFailed"
                         /\ diags' = << ErrorDiag("errClient",
                                          << "Unable to delete scaling group, got error: " >>
                                             \o out.ret.err.text) >>
                         /\ UNCHANGED << nextTick >>
                    ELSE /\ pc' = "select"
                         /\ diags' = << >>
                         /\ nextTick' = FirstTick(now)
    /\ lastOp' = [op |-> "DeleteScalingGroup"]
    /\ UNCHANGED << clientVars, tfVars, now, tickBuf, cancelled, reads, presentReads, readEnd,
                    slowReads, sgRemote, held, atCreate >>

\* select blocks: nothing is ready, the clock moves to the next tick or to
\* the deadline
PollWait ==
    /\ pc = "select"
    /\ ~tickBuf
    /\ ~DoneReady
    /\ LET t == IF nextTick < TimeoutSeconds THEN nextTick ELSE TimeoutSeconds
       IN  /\ now' = t
           /\ tickBuf' = TickerAt(t).buf
           /\ nextTick' = TickerAt(t).next
    /\ UNCHANGED << clientVars, tfVars, pc, cancelled, reads, presentReads, readEnd, slowReads,
                    sgRemote, diags, heldVars >>

\* the context handed to Delete is cancelled
PollCancel ==
    /\ pc \in {"select", "reading"}
    /\ ~cancelled
    /\ cancelled' = TRUE
    /\ UNCHANGED << clientVars, tfVars, pc, now, nextTick, tickBuf, reads, presentReads, readEnd,
                    slowReads, sgRemote, diags, heldVars >>

\* the server finishes tearing the group down
ServerTeardown ==
    /\ pc \in {"select", "reading"}
    /\ sgRemote = "present"
    /\ sgRemote' = "gone"
    /\ UNCHANGED << clientVars, tfVars, pc, now, nextTick, tickBuf, cancelled, reads, presentReads,
                    readEnd, slowReads, diags, heldVars >>

\* case <-timeoutCtx.Done()
PollDone ==
    /\ pc = "select"
    /\ DoneReady
    /\ diags' = Append(diags, ErrorDiag("Delete Timeout",
                          << "Timed out waiting for scaling group to be deleted." >>))
    /\ pc' = "TimedOut"
    /\ lastOp' = [op |-> "Done"]
    /\ UNCHANGED << clientVars, tfVars, now, nextTick, tickBuf, cancelled, reads, presentReads,
                    readEnd, slowReads, sgRemote, held, atCreate >>

\* case <-ticker.C: take the tick and issue GetScalingGroup
PollTick ==
    /\ pc = "select"
    /\ tickBuf
    /\ tickBuf' = FALSE
    /\ reads' = reads + 1
    /\ pc' = "reading"
    /\ \E d \in ReadDurations :
          /\ d > 0 => (~cancelled /\ slowReads < MaxSlowReads)
          /\ readEnd' = now + d
          /\ slowReads' = IF d > 0 THEN slowReads + 1 ELSE slowReads
    /\ lastOp' = [op |-> "GetScalingGroup", issuedCancelled |-> cancelled]
    /\ UNCHANGED << clientVars, tfVars, now, nextTick, cancelled, presentReads, sgRemote, diags,
                    held, atCreate >>

\* the polling Read is in flight and the clock moves to its end
PollReadTime ==
    /\ pc = "reading"
    /\ now < readEnd
    /\ now' = readEnd
    /\ tickBuf' = TickerAt(readEnd).buf
    /\ nextTick' = TickerAt(readEnd).next
    /\ UNCHANGED << clientVars, tfVars, pc, cancelled, reads, presentReads, readEnd, slowReads,
                    sgRemote, diags, heldVars >>

\* GetScalingGroup returns and the loop acts on its result
PollReadReturn ==
    /\ pc = "reading"
    /\ now = readEnd
    /\ \E plan \in IF lastOp.issuedCancelled THEN {CancelledCall}
                   ELSE IF cancelled THEN PollPlans(sgRemote) \cup {CancelledCall}
                   ELSE PollPlans(sgRemote) :
          LET out == GetEntity(client, "ScalingGroup", sgID, plan)
          IN  /\ pc' = AfterRead(out.ret)
              /\ lastOp' = [op |-> "PollRead", result |-> ReadResult(out.ret),
                            errKind |-> out.ret.err.kind]
              /\ presentReads' = IF ReadResult(out.ret) = "present"
                                     THEN presentReads + 1 ELSE presentReads
              /\ diags' = IF IsErr(out.ret.err)
                             THEN Append(diags, ErrorDiag("errClient",
                                     << "Error checking scaling group status: " >>
                                        \o out.ret.err.text))
                             ELSE diags
    /\ UNCHANGED << clientVars, tfVars, now, nextTick, tickBuf, cancelled, reads, readEnd,
                    slowReads, sgRemote, held, atCreate >>

NextPoll ==
    \/ SGDeleteBegin
    \/ PollWait
    \/ PollCancel
    \/ ServerTeardown
    \/ PollDone
    \/ PollTick
    \/ PollReadTime
    \/ PollReadReturn

\* the handlers run with the client the provider configured
InitConfigured == Init /\ client = NewClient("http://localhost:8080", "test-key")

SpecPoll == InitConfigured /\ [][NextPoll]_vars

\* the goroutine runs: a blocked select wakes when a channel becomes ready, a
\* select with a ready case takes one, and a call that was issued returns
SpecPollFair ==
    /\ SpecPoll
    /\ WF_vars(PollWait)
    /\ WF_vars(PollDone \/ PollTick)
    /\ WF_vars(PollReadTime)
    /\ WF_vars(PollReadReturn)


\* ------------------------------------------------------------------------
\* Properties of the scaling-group Delete poller
\* ------------------------------------------------------------------------

HasDiag(summary) == \E i \in 1..Len(diags) : diags[i].summary = summary

TimeoutDiag == ErrorDiag("Delete Timeout",
                         << "Timed out waiting for scaling group to be deleted." >>)

LastReadWas(result) == lastOp.op = "PollRead" /\ lastOp.result = result

C5_Outcome ==
    /\ LastReadWas("absent") => (pc = "Completed" /\ diags = << >>)
    /\ pc = "Completed" => (LastReadWas("absent") /\ reads = presentReads + 1 /\ diags = << >>)
    /\ pc = "TimedOut" => (reads = presentReads /\ DoneReady /\ diags = << TimeoutDiag >>)
    /\ (pc \in PollTerminal /\ reads = presentReads) => pc = "TimedOut"
    /\ reads * TickSeconds <= now

C5_TerminalIsFinal ==
    pc \in PollTerminal => (pc' = pc /\ reads' = reads /\ diags' = diags)

C6_CancelIsNotTimeout ==
    (cancelled /\ now < TimeoutSeconds /\ pc \in PollTerminal) => ~HasDiag("Delete Timeout")

C7_ErrorOutcome ==
    /\ LastReadWas("error") =>
          /\ pc = "Errored"
          /\ now = readEnd
          /\ reads = presentReads + 1
          /\ Len(diags) = 1
          /\ diags[1].severity = "error"
          /\ diags[1].summary = "errClient"
          /\ diags[1].detail[1] = "Error checking scaling group status: "
    /\ pc = "Errored" => LastReadWas("error")

C7_NoReadAfterError ==
    pc = "Errored" => (pc' = "Errored" /\ reads' = reads /\ now' = now)

\* C7: the first polling GetScalingGroup that returns an error, whatever its
\* kind, ends the poller as Errored in the step in which it returns, with one
\* error diagnostic "Error checking scaling group status: ..."; all Reads
\* before it found the group; no tick is awaited and no Read issued afterwards.
C7_FirstErrorEnds ==
    /\ [](C7_ErrorOutcome)
    /\ [][C7_NoReadAfterError]_vars

\* a decode error on the third Read, after two Reads that found the group
C7_Witness ==
    /\ pc = "Errored"
    /\ presentReads = 2
    /\ lastOp.op = "PollRead"
    /\ lastOp.errKind = "decode"
    /\ ~cancelled

\* C8 as stated: the group is found on ticks 1 and 2 and absent on tick 3;
\* Delete returns without error after exactly three Reads and the waiting is
\* about two tick intervals, less than three.
C8_ScenarioB_TwoIntervals ==
    (pc = "Completed" /\ presentReads = 2) =>
        (reads = 3 /\ diags = << >> /\ now < 3 * TickSeconds)

\* C8 amended: the group is found on ticks 1 and 2 and absent on tick 3;
\* Delete returns without error after exactly three Reads; the first Read is
\* issued one tick interval after the DELETE, so the waiting is three tick
\* intervals plus at most the time the three Reads take, far from the deadline.
C8_ScenarioB_ThreeIntervals ==
    (pc = "Completed" /\ presentReads = 2) =>
        /\ reads = 3
        /\ diags = << >>
        /\ now >= 3 * TickSeconds
        /\ now <= 3 * TickSeconds + 3 * LongRead
        /\ now < TimeoutSeconds

\* Scenario B with Reads that return at once: Delete returns at second 15
C8_Witness ==
    /\ pc = "Completed"
    /\ presentReads = 2
    /\ reads = 3
    /\ now = 3 * TickSeconds
    /\ ~cancelled


-----------------------------------------------------------------------------
(* The resources that hold a sensitive field: Secret (value), API key      *)
(* (key), Database and Cache (connection_string).  held[r] is the state    *)
(* the orchestrator keeps for r; its member "secret" is the sensitive one. *)

SecretValues == {"s3cret", "rotated"}

\* an entity as the server renders it, with or without its sensitive member
HeldObject(id, withSecret, v) ==
    [ t |-> "object",
      fields |-> [ x \in (IF withSecret THEN {"id", "name", "secret"} ELSE {"id", "name"}) |->
                     CASE x = "id" -> id
                       [] x = "name" -> "test-vpc"
                       [] x = "secret" -> v ] ]

HeldObjects ==
    { HeldObject("id-1", FALSE, "") } \cup { HeldObject("id-1", TRUE, v) : v \in SecretValues }

OKBody(d) == [kind |-> "json", data |-> d, error |-> Absent]

Once(resp) == [nFail |-> 0, transient |-> "neterr", final |-> resp]

QuotaBody == [kind |-> "json", data |-> Absent,
              error |-> [t |-> "string", text |-> "quota exceeded"]]

\* how the server answers the POST of a Create handler
HeldCreatePlans ==
    { Once([status |-> 201, body |-> OKBody(d)]) : d \in HeldObjects }
      \cup { Once([status |-> 400, body |-> QuotaBody]) }

\* how the server answers the GET of a Read handler
HeldReadPlans ==
    { Once([status |-> 200, body |-> OKBody(d)]) : d \in HeldObjects }
      \cup { Once([status |-> 404, body |-> [kind |-> "empty"]]),
             Once([status |-> 200, body |-> [kind |-> "garbage"]]) }

\* the key lists the server answers GET /auth/keys with
KeyLists ==
    { << >>, << HeldObject("id-2", FALSE, "") >> }
      \cup { << HeldObject("id-2", FALSE, ""), d >> : d \in HeldObjects }

KeyListPlans ==
    { Once([status |-> 200, body |-> OKBody([t |-> "list", items |-> l])]) : l \in KeyLists }
      \cup { Once([status |-> 200, body |-> [kind |-> "garbage"]]) }

\* how the server answers the DELETE of a Delete handler
HeldDeletePlans ==
    { Once([status |-> 204, body |-> [kind |-> "empty"]]),
      Once([status |-> 404, body |-> [kind |-> "empty"]]),
      Once([status |-> 400, body |-> QuotaBody]) }

ClientKind(r) ==
    CASE r = "secret" -> "Secret"
      [] r = "api_key" -> "APIKey"
      [] r = "database" -> "Database"

\* ListAPIKeys: GET /auth/keys decoded into []APIKey, each element
\* unmarshalled like an entity
ListAPIKeys(c, plan) ==
    LET r == do(c, "GET", << CollectionPath("APIKey") >>, "list", plan)
    IN  [ keys |-> IF IsErr(r.err) THEN << >>
                   ELSE [ i \in 1..Len(r.v) |-> UnmarshalEntity(r.v[i]) ],
          err |-> r.err ]

\* the client's cache operations, shaped like those of every other entity
CreateCache(c, plan) ==
    LET r == do(c, "POST", << "/caches" >>, "entity", plan)
    IN  [ ret |-> IF IsErr(r.err)
                      THEN Returned("Create", "Cache", "", Nil, r.err, 1)
                      ELSE Returned("Create", "Cache", "", r.v, NoErr, 1),
          sent |-> r.sent ]

GetCache(c, id, plan) ==
    LET r == do(c, "GET", << "/caches", "/", id >>, "entity", plan)
    IN  [ ret |-> IF IsErr(r.err) THEN Returned("Get", "Cache", id, Nil, r.err, 1)
                  ELSE IF r.status = 404 THEN Returned("Get", "Cache", id, Nil, NoErr, 1)
                  ELSE Returned("Get", "Cache", id, r.v, NoErr, 1),
          sent |-> r.sent ]

DeleteCache(c, id, plan) ==
    LET r == do(c, "DELETE", << "/caches", "/", id >>, "none", plan)
    IN  [ ret |-> Returned("Delete", "Cache", id, Nil, r.err, 1), sent |-> r.sent ]

ClientCreate(c, r, plan) ==
    IF r = "cache" THEN CreateCache(c, plan).ret ELSE CreateEntity(c, ClientKind(r), plan).ret

ClientGet(c, r, id, plan) ==
    IF r = "cache" THEN GetCache(c, id, plan).ret ELSE GetEntity(c, ClientKind(r), id, plan).ret

ClientDelete(c, r, id, plan) ==
    IF r = "cache" THEN DeleteCache(c, id, plan).ret
    ELSE DeleteEntity(c, ClientKind(r), id, plan).ret


\* the state a Create handler sets: the plan with the computed members filled in
\* SecretResource.Create: only the id comes from the response
SecretCreateState(planned, e) ==
    [ tracked |-> TRUE, id |-> e.id, name |-> planned.name, secret |-> planned.value ]

\* ApiKeyResource.Create: id, key and created_at come from the response
ApiKeyCreateState(planned, e) ==
    [ tracked |-> TRUE, id |-> e.id, name |-> planned.name, secret |-> e.secret ]

\* DatabaseResource.Create: id, status, port, username, connection_string
DatabaseCreateState(planned, e) ==
    [ tracked |-> TRUE, id |-> e.id, name |-> planned.name, secret |-> e.secret ]

\* CacheResource.Create: id, engine, status, port, connection_string
CacheCreateState(planned, e) ==
    [ tracked |-> TRUE, id |-> e.id, name |-> planned.name, secret |-> e.secret ]

\* a Secret Read that also copies the response's value into the state
SecretReadState_CopiesValue(state, e) ==
    [ state EXCEPT !.id = e.id, !.name = e.name, !.secret = e.secret ]

\* SecretResource.Read: id, name, description; the value stays
SecretReadState(state, e) ==
    [ state EXCEPT !.id = e.id, !.name = e.name ]

\* ApiKeyResource.Read: id, name, created_at; the key stays
ApiKeyReadState(state, k) ==
    [ state EXCEPT !.id = k.id, !.name = k.name ]

\* DatabaseResource.Read: every member, connection_string included
DatabaseReadState(state, e) ==
    [ state EXCEPT !.id = e.id, !.name = e.name, !.secret = e.secret ]

\* CacheResource.Read: every member, connection_string included
CacheReadState(state, e) ==
    [ state EXCEPT !.id = e.id, !.name = e.name, !.secret = e.secret ]

\* the loop of ApiKeyResource.Read: the index of the first key with the id, 0 if none
FoundKey(keys, id) ==
    IF \E i \in 1..Len(keys) : keys[i].id = id
        THEN CHOOSE i \in 1..Len(keys) :
                 /\ keys[i].id = id
                 /\ \A j \in 1..(i - 1) : keys[j].id # id
        ELSE 0

Noun(r) ==
    CASE r = "secret" -> "secret"
      [] r = "api_key" -> "API key"
      [] r = "database" -> "Database"
      [] r = "cache" -> "Cache"

\* a handler's error diagnostic: AddError(errClient, "Unable to <verb> <noun>, got error: <err>")
ClientErrorDiag(verb, noun, err) ==
    ErrorDiag("errClient", << "Unable to ", verb, " ", noun, ", got error: " >> \o err.text)

heldFrame == UNCHANGED << clientVars, tfVars, pollVars >>

\* the Create handler of resource type r fills in the state
CreateState(r, planned, e) ==
    CASE r = "secret" -> SecretCreateState(planned, e)
      [] r = "api_key" -> ApiKeyCreateState(planned, e)
      [] r = "database" -> DatabaseCreateState(planned, e)
      [] r = "cache" -> CacheCreateState(planned, e)

\* the Read handler of resource type r refreshes the state
ReadState(r, state, e) ==
    CASE r = "secret" -> SecretReadState(state, e)
      [] r = "database" -> DatabaseReadState(state, e)
      [] r = "cache" -> CacheReadState(state, e)

\* a Create handler: the client's Create; an error diagnostic and no state if
\* it fails, else resp.State.Set of the plan completed from the response
CreateHandler(r) ==
    /\ ~held[r].tracked
    /\ \E name \in Names, value \in (IF r = "secret" THEN SecretValues ELSE {""}),
          plan \in HeldCreatePlans :
          LET planned == [name |-> name, value |-> value]
              out == ClientCreate(client, r, plan)
          IN  IF IsErr(out.err)
                  THEN /\ diags' = << ClientErrorDiag("create", Noun(r), out.err) >>
                       /\ lastOp' = [op |-> "Create", res |-> r, outcome |-> "error"]
                       /\ UNCHANGED << held, atCreate >>
                  ELSE /\ diags' = << >>
                       /\ held' = [held EXCEPT ![r] = CreateState(r, planned, out.entity)]
                       /\ atCreate' = [atCreate EXCEPT ![r] = CreateState(r, planned, out.entity).secret]
                       /\ lastOp' = [op |-> "Create", res |-> r, outcome |-> "set"]
    /\ heldFrame

\* a Read handler over a Get: an error diagnostic if it fails, RemoveResource
\* if the entity is nil, else resp.State.Set of the state refreshed from it
ReadHandler(r) ==
    /\ held[r].tracked
    /\ \E plan \in HeldReadPlans :
          LET out == ClientGet(client, r, held[r].id, plan)
          IN  IF IsErr(out.err)
                  THEN /\ diags' = << ClientErrorDiag("read", Noun(r), out.err) >>
                       /\ lastOp' = [op |-> "Read", res |-> r, outcome |-> "error",
                                     omitted |-> FALSE]
                       /\ UNCHANGED << held >>
              ELSE IF out.entity = Nil
                  THEN /\ diags' = << >>
                       /\ held' = [held EXCEPT ![r] = Removed]
                       /\ lastOp' = [op |-> "Read", res |-> r, outcome |-> "removed",
                                     omitted |-> FALSE]
              ELSE /\ diags' = << >>
                   /\ held' = [held EXCEPT ![r] = ReadState(r, held[r], out.entity)]
                   /\ lastOp' = [op |-> "Read", res |-> r, outcome |-> "set",
                                 omitted |-> out.entity.secret = ""]
    /\ UNCHANGED atCreate
    /\ heldFrame

SecretCreate == CreateHandler("secret")

ApiKeyCreate == CreateHandler("api_key")

DatabaseCreate == CreateHandler("database")

CacheCreate == CreateHandler("cache")

SecretRead == ReadHandler("secret")

DatabaseRead == ReadHandler("database")

CacheRead == ReadHandler("cache")

\* ApiKeyResource.Read: list the keys and look for the id
ApiKeyRead ==
    /\ held["api_key"].tracked
    /\ \E plan \in KeyListPlans :
          LET out == ListAPIKeys(client, plan)
              i == FoundKey(out.keys, held["api_key"].id)
          IN  IF IsErr(out.err)
                  THEN /\ diags' = << ErrorDiag("errClient",
                                        << "Unable to list API keys, got error: " >>
                                           \o out.err.text) >>
                       /\ lastOp' = [op |-> "Read", res |-> "api_key", outcome |-> "error",
                                     omitted |-> FALSE]
                       /\ UNCHANGED << held >>
              ELSE IF i = 0
                  THEN /\ diags' = << >>
                       /\ held' = [held EXCEPT !["api_key"] = Removed]
                       /\ lastOp' = [op |-> "Read", res |-> "api_key", outcome |-> "removed",
                                     omitted |-> FALSE]
              ELSE /\ diags' = << >>
                   /\ held' = [held EXCEPT !["api_key"] =
                                  ApiKeyReadState(held["api_key"], out.keys[i])]
                   /\ lastOp' = [op |-> "Read", res |-> "api_key", outcome |-> "set",
                                 omitted |-> out.keys[i].secret = ""]
    /\ UNCHANGED atCreate
    /\ heldFrame

\* a Delete handler: the client's Delete; an error diagnostic if it fails, and
\* the orchestrator drops the state when the handler returns without one
HeldDelete ==
    /\ \E r \in ResourceTypes, plan \in HeldDeletePlans :
          /\ held[r].tracked
          /\ LET out == ClientDelete(client, r, held[r].id, plan)
             IN  IF IsErr(out.err)
                     THEN /\ diags' = << ClientErrorDiag(IF r = "api_key" THEN "revoke"
                                                         ELSE "delete", Noun(r), out.err) >>
                          /\ lastOp' = [op |-> "Delete", res |-> r, outcome |-> "error"]
                          /\ UNCHANGED << held >>
                     ELSE /\ diags' = << >>
                          /\ held' = [held EXCEPT ![r] = Removed]
                          /\ lastOp' = [op |-> "Delete", res |-> r, outcome |-> "removed"]
    /\ UNCHANGED atCreate
    /\ heldFrame

NextHeld ==
    \/ SecretCreate
    \/ ApiKeyCreate
    \/ DatabaseCreate
    \/ CacheCreate
    \/ SecretRead
    \/ ApiKeyRead
    \/ DatabaseRead
    \/ CacheRead
    \/ HeldDelete

SpecHeld == InitConfigured /\ [][NextHeld]_vars


\* ------------------------------------------------------------------------
\* Properties of the resources that hold a sensitive field
\* ------------------------------------------------------------------------

ReadOf(op, r) == op.op = "Read" /\ op.res = r

C9_HeldSinceCreate ==
    \A r \in {"secret", "api_key"} : held[r].tracked => held[r].secret = atCreate[r]

C9_ReadKeepsValue ==
    \A r \in {"secret", "api_key"} :
        (ReadOf(lastOp', r) /\ held[r].tracked /\ held'[r].tracked) =>
            held'[r].secret = held[r].secret

\* C9: for the Secret resource (value) and the API-key resource (key), a Read
\* that finds the entity leaves the held value of the sensitive field exactly
\* as it was before the Read, whether the response omits the field or carries
\* one; so after any number of Reads the held value is still the one Create
\* stored.
C9_SecretNotOverwritten ==
    /\ [](C9_HeldSinceCreate)
    /\ [][C9_ReadKeepsValue]_vars

\* the key is still held after a Read whose listing omits it, next to a held
\* secret value
C9_Witness ==
    /\ ReadOf(lastOp, "api_key")
    /\ lastOp.outcome = "set"
    /\ lastOp.omitted
    /\ held["api_key"].tracked
    /\ held["api_key"].secret = "s3cret"
    /\ held["secret"].tracked
    /\ held["secret"].secret = "rotated"

C10_ReadKeepsConnectionString ==
    \A r \in {"database", "cache"} :
        (ReadOf(lastOp', r) /\ lastOp'.omitted /\ held[r].tracked /\ held'[r].tracked) =>
            held'[r].secret = held[r].secret

\* C10: for the Database and Cache resources, a Read whose response omits the
\* connection string leaves the connection_string held in state untouched.
C10_ConnectionStringKept == [][C10_ReadKeepsConnectionString]_vars


\* ------------------------------------------------------------------------
\* The reconciliation handlers of the resources tracked by id
\* (internal/resources/*.go): Create, Read, Update, Delete, ImportState
\* ------------------------------------------------------------------------

\* the resource types whose client operations are followed: one client call
\* per handler (two for the load balancer's Read)
ResKinds == GetKinds

\* the resource types followed through ImportState and Update only
ImportOnlyTypes == {"APIKey", "Function", "Cache", "Tenant", "Queue", "GatewayRoute", "Image"}

\* the resource types whose Update sends nothing
NoOpUpdateTypes == (ResKinds \ {"Cluster", "DNSRecord"}) \cup ImportOnlyTypes

\* the noun a handler's error diagnostic uses
ResNoun(kind) ==
    CASE kind = "VPC" -> "VPC"
      [] kind = "Instance" -> "instance"
      [] kind = "Volume" -> "volume"
      [] kind = "SecurityGroup" -> "security group"
      [] kind = "LoadBalancer" -> "load balancer"
      [] kind = "Secret" -> "secret"
      [] kind = "ScalingGroup" -> "scaling group"
      [] kind = "Subnet" -> "subnet"
      [] kind = "Snapshot" -> "snapshot"
      [] kind = "Database" -> "database"
      [] kind = "ElasticIP" -> "Elastic IP"
      [] kind = "DNSZone" -> "DNS Zone"
      [] kind = "DNSRecord" -> "DNS Record"
      [] kind = "Cluster" -> "Cluster"
      [] kind = "GlobalLB" -> "Global LB"

\* the attribute ImportStatePassthroughID fills in
ImportAttr(type) ==
    CASE type = "Tenant" -> "slug"
      [] OTHER -> "id"

\* a tracked resource: the attributes of the state the model follows
Tracked(type, id, name, slug) ==
    [ tracked |-> TRUE, type |-> type, id |-> id, name |-> name, slug |-> slug ]

WarningDiag(summary, detail) == [severity |-> "warning", summary |-> summary, detail |-> detail]

\* what the Update handler of a type adds to resp.Diagnostics: the warning
\* "Update Not Supported", or nothing.  Two files define DatabaseResource, one
\* of each sort.
UpdateDiagnostics(type) ==
    CASE type \in {"APIKey", "Instance", "LoadBalancer", "Snapshot", "ScalingGroup",
                   "Secret", "SecurityGroup", "Volume", "VPC", "Subnet"}
              -> { << WarningDiag("Update Not Supported", type) >> }
      [] type = "Database"
              -> { << WarningDiag("Update Not Supported", type) >>, << >> }
      [] type \in {"ElasticIP", "Function", "Cache", "DNSZone", "Tenant", "Queue",
                   "GatewayRoute", "Image", "GlobalLB"}
              -> { << >> }

\* the state a Create handler sets: the plan completed from the entity
ResCreateState(kind, e) == Tracked(kind, e.id, e.name, "")

ReadOutcome_AbsenceIsError(got) ==
    IF IsErr(got.err) \/ got.entity = Nil THEN "error" ELSE "set"

\* what a Read handler does with what the client returned: the error branch
\* first, then the nil check, else State.Set
ReadOutcome(got) ==
    IF IsErr(got.err) THEN "error"
    ELSE IF got.entity = Nil THEN "removed"
    ELSE "set"

\* the state a Read handler sets from the entity it found
ResReadState(state, e) == [state EXCEPT !.id = e.id, !.name = e.name]

\* what the server does with a handler's client call: fail every attempt, or
\* answer at once with a success, an error status or a 404
ResPlans ==
    { p \in FirstPlans :
        /\ p.final.status \in {200, 400, 404}
        /\ p.nFail > 0 => p.final = [status |-> 200, body |-> [kind |-> "empty"]]
        /\ p.final.body.kind = "json" =>
              /\ p.final.body.data \in {Absent, Mistyped} \cup DataObjects
              /\ p.final.body.error \in
                    { Absent, [t |-> "string", text |-> "quota exceeded"],
                      [t |-> "object", type |-> "invalid_input", code |-> "400",
                       message |-> [t |-> "string", text |-> "invalid cidr"]] } }

\* the second answer of a Read that makes one call only
NoListPlan == Once([status |-> 404, body |-> [kind |-> "empty"]])

\* the client's Get of a resource type
ResGet(c, kind, id, plan, listPlan) ==
    IF kind = "LoadBalancer" THEN GetLoadBalancer(c, id, plan, listPlan)
    ELSE GetEntity(c, kind, id, plan)

\* the error Transport or the codec yields inside a handler's client call:
\* that of the call itself or, when the call is answered without one and is
\* followed by the listing of a load balancer's targets, that of the listing
YieldedBy(method, dest, plan, listPlan) ==
    LET r == do(client, method, << >>, dest, plan)
    IN  IF IsErr(r.err) \/ r.status = 404 \/ listPlan = NoListPlan THEN r.err
        ELSE do(client, "GET", << >>, "list", listPlan).err

resFrame == UNCHANGED << client, wire, pollVars, held, atCreate, assoc, provider, onServer >>

\* Create: the client's Create; an error diagnostic and no state if it fails,
\* else resp.State.Set
ResCreate ==
    /\ ~tfstate.tracked
    /\ \E kind \in ResKinds, plan \in ResPlans :
          LET out == CreateEntity(client, kind, plan)
              verb == IF kind = "ElasticIP" THEN "allocate" ELSE "create"
          IN  /\ ret' = out.ret
              /\ IF IsErr(out.ret.err)
                     THEN /\ diags' = << ClientErrorDiag(verb, ResNoun(kind), out.ret.err) >>
                          /\ lastOp' = [op |-> "Create", res |-> kind, outcome |-> "error",
                                      yielded |-> YieldedBy("POST", "entity", plan, NoListPlan)]
                          /\ UNCHANGED tfstate
                     ELSE /\ diags' = << >>
                          /\ tfstate' = ResCreateState(kind, out.ret.entity)
                          /\ lastOp' = [op |-> "Create", res |-> kind, outcome |-> "set",
                                      yielded |-> YieldedBy("POST", "entity", plan, NoListPlan)]
    /\ resFrame

\* ImportState: ImportStatePassthroughID puts the id given on the command
\* line into the state; nothing is sent
ResImport ==
    /\ ~tfstate.tracked
    /\ \E type \in ResKinds \cup ImportOnlyTypes, id \in Ids :
          /\ tfstate' = [Tracked(type, "", "", "") EXCEPT ![ImportAttr(type)] = id]
          /\ lastOp' = [op |-> "Import", res |-> type, outcome |-> "set"]
    /\ diags' = << >>
    /\ ret' = NoCall
    /\ resFrame

\* Read: the client's Get; an error diagnostic if it fails, RemoveResource if
\* the entity is nil, else resp.State.Set of the state refreshed from it
ResRead ==
    /\ tfstate.tracked
    /\ tfstate.type \in ResKinds
    /\ \E plan \in ResPlans,
          listPlan \in (IF tfstate.type = "LoadBalancer" THEN ListPlans ELSE {NoListPlan}) :
          LET out == ResGet(client, tfstate.type, tfstate.id, plan, listPlan)
              outcome == ReadOutcome(out.ret)
          IN  /\ ret' = out.ret
              /\ lastOp' = [op |-> "Read", res |-> tfstate.type, outcome |-> outcome,
                                      yielded |-> YieldedBy("GET", "entity", plan, listPlan)]
              /\ CASE outcome = "error" ->
                        /\ diags' = << ClientErrorDiag("read", ResNoun(tfstate.type), out.ret.err) >>
                        /\ UNCHANGED tfstate
                   [] outcome = "removed" ->
                        /\ diags' = << >>
                        /\ tfstate' = Removed
                   [] outcome = "set" ->
                        /\ diags' = << >>
                        /\ tfstate' = ResReadState(tfstate, out.ret.entity)
    /\ resFrame

\* Update of a type without an update endpoint: no client call; resp.State,
\* which the framework fills with the prior state, is left alone
ResUpdate ==
    /\ tfstate.tracked
    /\ tfstate.type \in NoOpUpdateTypes
    /\ \E d \in UpdateDiagnostics(tfstate.type) : diags' = d
    /\ lastOp' = [op |-> "Update", res |-> tfstate.type, outcome |-> "kept"]
    /\ ret' = NoCall
    /\ UNCHANGED tfstate
    /\ resFrame

\* Delete: the client's Delete; an error diagnostic if it fails, and the
\* orchestrator drops the state when the handler returns without one.  The
\* scaling group's Delete goes on to poll (SGDeleteBegin).
ResDelete ==
    /\ tfstate.tracked
    /\ tfstate.type \in ResKinds \ {"ScalingGroup"}
    /\ \E plan \in ResPlans :
          LET out == DeleteEntity(client, tfstate.type, tfstate.id, plan)
              verb == IF tfstate.type = "ElasticIP" THEN "release" ELSE "delete"
          IN  /\ ret' = out.ret
              /\ IF IsErr(out.ret.err)
                     THEN /\ diags' = << ClientErrorDiag(verb, ResNoun(tfstate.type), out.ret.err) >>
                          /\ lastOp' = [op |-> "Delete", res |-> tfstate.type, outcome |-> "error",
                                      yielded |-> YieldedBy("DELETE", "none", plan, NoListPlan)]
                          /\ UNCHANGED tfstate
                     ELSE /\ diags' = << >>
                          /\ tfstate' = Removed
                          /\ lastOp' = [op |-> "Delete", res |-> tfstate.type, outcome |-> "removed",
                                      yielded |-> YieldedBy("DELETE", "none", plan, NoListPlan)]
    /\ resFrame

\* TenantResource.Delete: a warning and nothing else; the handler returns
\* without an error, so the orchestrator drops the state
TenantDelete ==
    /\ tfstate.tracked
    /\ tfstate.type = "Tenant"
    /\ diags' = << WarningDiag("Delete Not Supported", "Tenant") >>
    /\ ret' = NoCall
    /\ tfstate' = Removed
    /\ lastOp' = [op |-> "Delete", res |-> "Tenant", outcome |-> "removed", yielded |-> NoErr]
    /\ resFrame

NextRes ==
    \/ ResCreate
    \/ ResImport
    \/ ResRead
    \/ ResUpdate
    \/ ResDelete
    \/ TenantDelete

SpecRes == InitConfigured /\ [][NextRes]_vars

\* ------------------------------------------------------------------------
\* Properties of the reconciliation handlers
\* ------------------------------------------------------------------------

HasErrorDiag == \E i \in 1..Len(diags) : diags[i].severity = "error"

\* the Read that just ran, and what the client returned to it
ResReadGot(absence, failure) ==
    /\ lastOp.op = "Read"
    /\ lastOp.res \in ResKinds
    /\ ret # NoCall
    /\ IsErr(ret.err) = failure
    /\ (ret.entity = Nil) = absence

C11_AfterRead ==
    /\ ResReadGot(TRUE, FALSE) => ~tfstate.tracked /\ ~HasErrorDiag
    /\ (ResReadGot(FALSE, FALSE)) =>
          /\ tfstate.tracked
          /\ tfstate.id = ret.entity.id
          /\ tfstate.name = ret.entity.name
          /\ ~HasErrorDiag
    /\ (lastOp.op = "Read" /\ lastOp.res \in ResKinds /\ IsErr(ret.err)) =>
          /\ HasErrorDiag
          /\ tfstate.tracked

C11_ErrorKeepsState ==
    (lastOp'.op = "Read" /\ lastOp'.res \in ResKinds /\ IsErr(ret'.err)) => tfstate' = tfstate

C12_Types ==
    {"VPC", "Instance", "SecurityGroup", "LoadBalancer", "Secret", "APIKey", "ScalingGroup",
     "Snapshot", "Database", "DNSZone", "ElasticIP", "Function", "Tenant", "Cache"}

HasWarningDiag == \E i \in 1..Len(diags) : diags[i].severity = "warning"

\* C12: the Update of a resource type that has no update endpoint issues no
\* request, leaves the state as it was, and always adds a warning diagnostic:
\* it never returns silently.  (The frame part, no request and the state left
\* alone, is C12_UpdateSendsNothing.)
C12_UpdateAlwaysWarns ==
    (lastOp.op = "Update" /\ lastOp.res \in C12_Types) => HasWarningDiag

\* the part of C12 that the handlers do keep: no client call, state untouched
C12_UpdateSendsNothing ==
    [][(lastOp'.op = "Update" /\ lastOp'.res \in C12_Types)
          => (tfstate' = tfstate /\ ret' = NoCall /\ wire' = wire)]_vars


\* ------------------------------------------------------------------------
\* The association resources: load-balancer target, security-group rule,
\* Elastic IP association, global-LB endpoint.  Their identifiers are
\* strings taken apart character by character, so a string is a sequence of
\* one-character strings here and "" is << >>.
\* ------------------------------------------------------------------------

AssocTypes == {"LoadBalancerTarget", "SecurityGroupRule", "ElasticIPAssociation",
               "GlobalLBEndpoint"}

\* the longest parent or child id drawn
MaxIdLen == 2

\* the longest list of targets, rules or endpoints the server returns
MaxListed == 2

IdChars == {"a", "b"}

Delimiter == ":"

StringsUpTo(chars, n) == UNION { [1..k -> chars] : k \in 0..n }

\* non-empty ids without the delimiter
AssocIds == StringsUpTo(IdChars, MaxIdLen) \ { << >> }

\* what a user may type after "terraform import <address>"
ImportIds == StringsUpTo(IdChars \cup {Delimiter}, MaxIdLen + 1) \ { << >> }

\* strings.Split(s, sep) for a separator of one character
RECURSIVE Split(_, _)
Split(s, sep) ==
    IF \A i \in 1..Len(s) : s[i] # sep
        THEN << s >>
        ELSE LET i == CHOOSE k \in 1..Len(s) :
                          s[k] = sep /\ \A j \in 1..(k - 1) : s[j] # sep
             IN  << SubSeq(s, 1, i - 1) >> \o Split(SubSeq(s, i + 1, Len(s)), sep)

\* fmt.Sprintf("%s:%s", parent, child)
CompositeID(parent, child) == parent \o << Delimiter >> \o child

\* a tracked association: id, the parent's id attribute (load_balancer_id,
\* security_group_id, eip_id, global_lb_id), instance_id where the type has
\* one, and the numbers Read refreshes (port and weight; port_min and
\* priority of a rule)
Assoc(type, id, parent, child, port, weight) ==
    [ tracked |-> TRUE, type |-> type, id |-> id, parent |-> parent, child |-> child,
      port |-> port, weight |-> weight ]

\* the zero value of a member: 0 for a number, "" or a nil slice otherwise
ZeroMember(f) == IF f \in {"port", "weight"} THEN 0 ELSE << >>

\* a member of the JSON object a successful do decoded; zero if it is missing
DataMember(plan, f, zero) ==
    LET b == plan.final.body
    IN  IF b.kind = "json" /\ b.data.t = "object" /\ f \in DOMAIN b.data.fields
            THEN b.data.fields[f]
            ELSE zero

\* every attempt of the call fails
AllAttemptsFail ==
    [nFail |-> RetryMax + 1, transient |-> "neterr",
     final |-> [status |-> 200, body |-> [kind |-> "empty"]]]

\* answers every call of an association handler may get
AssocFailPlans ==
    { AllAttemptsFail,
      Once([status |-> 400, body |-> QuotaBody]),
      Once([status |-> 404, body |-> [kind |-> "empty"]]) }

\* answers to a call that decodes nothing
AssocWritePlans == AssocFailPlans \cup { Once([status |-> 204, body |-> [kind |-> "empty"]]) }

ObjectPlans(objects) ==
    AssocFailPlans
      \cup { Once([status |-> 200, body |-> [kind |-> "garbage"]]) }
      \cup { Once([status |-> 200, body |-> OKBody([t |-> "object", fields |-> o])]) :
                o \in objects }

ListsUpTo(items, n) == UNION { [1..k -> items] : k \in 0..n }

\* LBTarget as ListLBTargets decodes it
ListedTargets == [ instance_id : { << "a" >>, << "b" >> }, port : {80, 8080}, weight : {1} ]

TargetListPlans ==
    AssocFailPlans
      \cup { Once([status |-> 200, body |-> [kind |-> "garbage"]]) }
      \cup { Once([status |-> 200, body |-> OKBody([t |-> "list", items |-> l])]) :
                l \in ListsUpTo(ListedTargets, MaxListed) }

\* SecurityRule and GlobalEndpoint as members of their parent
ListedMembers == [ id : { << "a" >>, << "b" >> }, port : {80, 8080}, weight : {1} ]

\* the parent of a rule or an endpoint, with and without its members
ParentObjects(member) ==
    { [id |-> << "a" >>] }
      \cup { (member :> l) @@ [id |-> << "a" >>] : l \in ListsUpTo(ListedMembers, MaxListed) }

\* SecurityRule / GlobalEndpoint as the server returns a new one
MemberObjects == { [id |-> i, port |-> 80, weight |-> 1] : i \in { << "a" >>, << "b" >> } }

\* ElasticIP: instance_id is omitted when the address is not associated
EIPObjects ==
    { [id |-> << "a" >>] }
      \cup { [id |-> << "a" >>, instance_id |-> x] : x \in { << >>, << "a" >>, << "b" >> } }

\* AddLBTarget: POST /lb/{id}/targets, nothing decoded
AddLBTarget(c, lbID, plan) ==
    LET r == do(c, "POST", << "/lb/", lbID, "/targets" >>, "none", plan)
    IN  Returned("AddLBTarget", "LoadBalancerTarget", lbID, Nil, r.err, 1)

\* RemoveLBTarget: DELETE /lb/{id}/targets/{instance}
RemoveLBTarget(c, lbID, instanceID, plan) ==
    LET r == do(c, "DELETE", << "/lb/", lbID, "/targets/", instanceID >>, "none", plan)
    IN  Returned("RemoveLBTarget", "LoadBalancerTarget", lbID, Nil, r.err, 1)

\* a client operation that decodes one object: (nil, err), (nil, nil) on a
\* 404 when the operation checks for it, else the members asked for
DecodedObject(c, op, kind, method, path, id, plan, checks404, members) ==
    LET r == do(c, method, path, "entity", plan)
    IN  IF IsErr(r.err) THEN Returned(op, kind, id, Nil, r.err, 1)
        ELSE IF checks404 /\ r.status = 404 THEN Returned(op, kind, id, Nil, NoErr, 1)
        ELSE Returned(op, kind, id,
                      [ f \in members |->
                          IF r.status = 404 THEN ZeroMember(f)
                          ELSE DataMember(plan, f, ZeroMember(f)) ],
                      NoErr, 1)

\* AddSecurityRule: POST /security-groups/{id}/rules
AddSecurityRule(c, groupID, plan) ==
    DecodedObject(c, "AddSecurityRule", "SecurityGroupRule", "POST",
                  << "/security-groups/", groupID, "/rules" >>, groupID, plan, FALSE,
                  {"id", "weight"})

\* RemoveSecurityRule: DELETE /security-groups/rules/{id}
RemoveSecurityRule(c, ruleID, plan) ==
    LET r == do(c, "DELETE", << "/security-groups/rules/", ruleID >>, "none", plan)
    IN  Returned("RemoveSecurityRule", "SecurityGroupRule", ruleID, Nil, r.err, 1)

\* GetSecurityGroup, with the group's rules
GetSecurityGroup(c, id, plan) ==
    DecodedObject(c, "GetSecurityGroup", "SecurityGroup", "GET",
                  SingletonPath("SecurityGroup", id), id, plan, TRUE, {"id", "rules"})

\* AssociateElasticIP: POST /elastic-ips/{id}/associate
AssociateElasticIP(c, id, instanceID, plan) ==
    DecodedObject(c, "AssociateElasticIP", "ElasticIP", "POST",
                  << "/elastic-ips/", id, "/associate" >>, id, plan, FALSE,
                  {"id", "instance_id"})

\* DisassociateElasticIP: POST /elastic-ips/{id}/disassociate
DisassociateElasticIP(c, id, plan) ==
    DecodedObject(c, "DisassociateElasticIP", "ElasticIP", "POST",
                  << "/elastic-ips/", id, "/disassociate" >>, id, plan, FALSE,
                  {"id", "instance_id"})

\* GetElasticIP
GetElasticIP(c, id, plan) ==
    DecodedObject(c, "GetElasticIP", "ElasticIP", "GET",
                  SingletonPath("ElasticIP", id), id, plan, TRUE, {"id", "instance_id"})

\* AddGlobalEndpoint: POST /global-lb/{id}/endpoints
AddGlobalEndpoint(c, glbID, plan) ==
    DecodedObject(c, "AddGlobalEndpoint", "GlobalLBEndpoint", "POST",
                  << "/global-lb/", glbID, "/endpoints" >>, glbID, plan, FALSE,
                  {"id", "weight"})

\* RemoveGlobalEndpoint: DELETE /global-lb/{id}/endpoints/{endpoint}
RemoveGlobalEndpoint(c, glbID, epID, plan) ==
    LET r == do(c, "DELETE", << "/global-lb/", glbID, "/endpoints/", epID >>, "none", plan)
    IN  Returned("RemoveGlobalEndpoint", "GlobalLBEndpoint", glbID, Nil, r.err, 1)

\* GetGlobalLB, with the endpoints of the load balancer
GetGlobalLB(c, id, plan) ==
    DecodedObject(c, "GetGlobalLB", "GlobalLB", "GET",
                  SingletonPath("GlobalLB", id), id, plan, TRUE, {"id", "endpoints"})


\* the index of the first item whose member f equals v, 0 if there is none
FirstMatch_Last(items, f, v) ==
    IF \E i \in 1..Len(items) : items[i][f] = v
        THEN CHOOSE i \in 1..Len(items) :
                 /\ items[i][f] = v
                 /\ \A j \in (i + 1)..Len(items) : items[j][f] # v
        ELSE 0

\* the scan of a Read handler: the index of the first item whose member f
\* equals v (the loop breaks there), 0 if there is none
FirstMatch(items, f, v) ==
    IF \E i \in 1..Len(items) : items[i][f] = v
        THEN CHOOSE i \in 1..Len(items) :
                 /\ items[i][f] = v
                 /\ \A j \in 1..(i - 1) : items[j][f] # v
        ELSE 0

\* what a handler leaves behind: the client's answer, the handler's outcome,
\* the state and the diagnostics
Handled(got, outcome, state, ds) ==
    [ got |-> got, outcome |-> outcome, state |-> state, diags |-> ds ]

Failed(got, state, verb, noun) ==
    Handled(got, "error", state, << ClientErrorDiag(verb, noun, got.err) >>)

\* LoadBalancerTargetResource.Create
LBTargetCreate(c, prior, parent, child, port, weight, plan) ==
    LET got == AddLBTarget(c, parent, plan)
    IN  IF IsErr(got.err) THEN Failed(got, prior, "add", "target to load balancer")
        ELSE Handled(got, "set",
                     Assoc("LoadBalancerTarget", CompositeID(parent, child), parent, child,
                           port, weight), << >>)

\* SecurityGroupRuleResource.Create
SGRuleCreate(c, prior, parent, child, port, weight, plan) ==
    LET got == AddSecurityRule(c, parent, plan)
    IN  IF IsErr(got.err) THEN Failed(got, prior, "create", "security group rule")
        ELSE Handled(got, "set",
                     Assoc("SecurityGroupRule", got.entity.id, parent, << >>, port,
                           got.entity.weight), << >>)

\* ElasticIPAssociationResource.Create
EIPAssociationCreate(c, prior, parent, child, port, weight, plan) ==
    LET got == AssociateElasticIP(c, parent, child, plan)
    IN  IF IsErr(got.err) THEN Failed(got, prior, "associate", "Elastic IP")
        ELSE Handled(got, "set",
                     Assoc("ElasticIPAssociation", got.entity.id, parent, child, 0, 0), << >>)

\* GlobalLBEndpointResource.Create
GLBEndpointCreate(c, prior, parent, child, port, weight, plan) ==
    LET got == AddGlobalEndpoint(c, parent, plan)
    IN  IF IsErr(got.err) THEN Failed(got, prior, "add", "GLB Endpoint")
        ELSE Handled(got, "set",
                     Assoc("GlobalLBEndpoint", got.entity.id, parent, << >>, 0, weight), << >>)

\* LoadBalancerTargetResource.Read
LBTargetRead(c, state, plan) ==
    LET l == ListLBTargets(c, state.parent, plan)
        got == Returned("ListLBTargets", "LoadBalancerTarget", state.parent,
                        l.targets, l.err, 1)
        i == FirstMatch(l.targets, "instance_id", state.child)
    IN  IF IsErr(l.err) THEN Failed(got, state, "read", "load balancer targets")
        ELSE IF i = 0 THEN Handled(got, "removed", Removed, << >>)
        ELSE Handled(got, "set",
                     [state EXCEPT !.port = l.targets[i].port,
                                   !.weight = l.targets[i].weight], << >>)

\* the Read of a resource found among the members of its parent
MemberRead(got, state, members, noun) ==
    IF IsErr(got.err) THEN Failed(got, state, "read", noun)
    ELSE IF got.entity = Nil THEN Handled(got, "removed", Removed, << >>)
    ELSE LET i == FirstMatch(got.entity[members], "id", state.id)
         IN  IF i = 0 THEN Handled(got, "removed", Removed, << >>)
             ELSE Handled(got, "set",
                          [state EXCEPT !.port = got.entity[members][i].port,
                                        !.weight = got.entity[members][i].weight], << >>)

\* SecurityGroupRuleResource.Read
SGRuleRead(c, state, plan) ==
    MemberRead(GetSecurityGroup(c, state.parent, plan), state, "rules",
               "security group for rule")

\* GlobalLBEndpointResource.Read
GLBEndpointRead(c, state, plan) ==
    MemberRead(GetGlobalLB(c, state.parent, plan), state, "endpoints",
               "Global LB for endpoint")

\* ElasticIPAssociationResource.Read
EIPAssociationRead(c, state, plan) ==
    LET got == GetElasticIP(c, state.parent, plan)
    IN  IF IsErr(got.err) THEN Failed(got, state, "read", "Elastic IP for association")
        ELSE IF got.entity = Nil THEN Handled(got, "removed", Removed, << >>)
        ELSE IF got.entity.instance_id = << >> THEN Handled(got, "removed", Removed, << >>)
        ELSE Handled(got, "set",
                     [state EXCEPT !.id = got.entity.id, !.parent = got.entity.id,
                                   !.child = got.entity.instance_id], << >>)

\* the client call of the Delete handler of a type
AssocDeleteCall(c, state, plan) ==
    CASE state.type = "LoadBalancerTarget" -> RemoveLBTarget(c, state.parent, state.child, plan)
      [] state.type = "SecurityGroupRule" -> RemoveSecurityRule(c, state.id, plan)
      [] state.type = "ElasticIPAssociation" -> DisassociateElasticIP(c, state.parent, plan)
      [] state.type = "GlobalLBEndpoint" -> RemoveGlobalEndpoint(c, state.parent, state.id, plan)

ImportFormatDiag(format, id) ==
    ErrorDiag("Unexpected Import Identifier",
              << "Expected import identifier with format: ", format, ". Got: ", id >>)

\* a test of the parts that lets empty ones through
TwoParts_AllowsEmpty(idParts) == Len(idParts) = 2

\* strings.Split(req.ID, ":") gave exactly two non-empty parts
TwoParts(idParts) == Len(idParts) = 2 /\ idParts[1] # << >> /\ idParts[2] # << >>

\* LoadBalancerTargetResource.ImportState: load_balancer_id, instance_id and
\* id are set; an id that is not "parent:child" is an error and sets nothing
LBTargetImport(prior, id) ==
    LET idParts == Split(id, Delimiter)
    IN  IF ~TwoParts(idParts)
            THEN Handled(NoCall, "error", prior,
                         << ImportFormatDiag("load_balancer_id:instance_id", id) >>)
            ELSE Handled(NoCall, "set",
                         Assoc("LoadBalancerTarget", id, idParts[1], idParts[2], 0, 0), << >>)

\* GlobalLBEndpointResource.ImportState: global_lb_id and id are set
GLBEndpointImport(prior, id) ==
    LET idParts == Split(id, Delimiter)
    IN  IF ~TwoParts(idParts)
            THEN Handled(NoCall, "error", prior,
                         << ImportFormatDiag("global_lb_id:endpoint_id", id) >>)
            ELSE Handled(NoCall, "set",
                         Assoc("GlobalLBEndpoint", idParts[2], idParts[1], << >>, 0, 0), << >>)

\* ImportStatePassthroughID(path.Root("id")), of the security-group rule and
\* the Elastic IP association: id is set, every other attribute stays null
PassthroughImport(type, prior, id) ==
    Handled(NoCall, "set", Assoc(type, id, << >>, << >>, 0, 0), << >>)

\* the handlers of each type
AssocCreateOf(type, c, prior, parent, child, port, weight, plan) ==
    CASE type = "LoadBalancerTarget" -> LBTargetCreate(c, prior, parent, child, port, weight, plan)
      [] type = "SecurityGroupRule" -> SGRuleCreate(c, prior, parent, child, port, weight, plan)
      [] type = "ElasticIPAssociation" ->
             EIPAssociationCreate(c, prior, parent, child, port, weight, plan)
      [] type = "GlobalLBEndpoint" -> GLBEndpointCreate(c, prior, parent, child, port, weight, plan)

AssocReadOf(c, state, plan) ==
    CASE state.type = "LoadBalancerTarget" -> LBTargetRead(c, state, plan)
      [] state.type = "SecurityGroupRule" -> SGRuleRead(c, state, plan)
      [] state.type = "ElasticIPAssociation" -> EIPAssociationRead(c, state, plan)
      [] state.type = "GlobalLBEndpoint" -> GLBEndpointRead(c, state, plan)

AssocImportOf(type, prior, id) ==
    CASE type = "LoadBalancerTarget" -> LBTargetImport(prior, id)
      [] type = "GlobalLBEndpoint" -> GLBEndpointImport(prior, id)
      [] OTHER -> PassthroughImport(type, prior, id)

\* what the Update handler of a type adds to resp.Diagnostics
AssocUpdateDiagnostics(type) ==
    IF type \in {"LoadBalancerTarget", "SecurityGroupRule"}
        THEN << WarningDiag("Update Not Supported", type) >>
        ELSE << >>

\* how the server answers each handler's call
AssocCreatePlans(type) ==
    CASE type = "LoadBalancerTarget" -> AssocWritePlans
      [] type = "ElasticIPAssociation" -> ObjectPlans(EIPObjects)
      [] OTHER -> ObjectPlans(MemberObjects)

AssocReadPlans(type) ==
    CASE type = "LoadBalancerTarget" -> TargetListPlans
      [] type = "SecurityGroupRule" -> ObjectPlans(ParentObjects("rules"))
      [] type = "ElasticIPAssociation" -> ObjectPlans(EIPObjects)
      [] type = "GlobalLBEndpoint" -> ObjectPlans(ParentObjects("endpoints"))

AssocDeletePlans(type) ==
    IF type = "ElasticIPAssociation" THEN ObjectPlans(EIPObjects) ELSE AssocWritePlans

assocFrame == UNCHANGED << client, wire, pollVars, held, atCreate, tfstate, provider, onServer >>

Apply(op, type, h) ==
    /\ assoc' = h.state
    /\ diags' = h.diags
    /\ ret' = h.got
    /\ lastOp' = [op |-> op, res |-> type, outcome |-> h.outcome]

AssocCreate ==
    /\ ~assoc.tracked
    /\ \E type \in AssocTypes, parent \in AssocIds :
          \E child \in (IF type \in {"LoadBalancerTarget", "ElasticIPAssociation"}
                            THEN AssocIds ELSE { << >> }),
             plan \in AssocCreatePlans(type) :
              Apply("Create", type,
                    AssocCreateOf(type, client, assoc, parent, child, 80, 1, plan))
    /\ assocFrame

AssocImport ==
    /\ ~assoc.tracked
    /\ \E type \in AssocTypes, id \in ImportIds :
          LET h == AssocImportOf(type, assoc, id)
          IN  /\ assoc' = h.state
              /\ diags' = h.diags
              /\ ret' = h.got
              /\ lastOp' = [op |-> "Import", res |-> type, outcome |-> h.outcome, given |-> id]
    /\ assocFrame

AssocRead ==
    /\ assoc.tracked
    /\ \E plan \in AssocReadPlans(assoc.type) :
          Apply("Read", assoc.type, AssocReadOf(client, assoc, plan))
    /\ assocFrame

\* Update: no client call, the state stays the prior state
AssocUpdate ==
    /\ assoc.tracked
    /\ Apply("Update", assoc.type,
             Handled(NoCall, "kept", assoc, AssocUpdateDiagnostics(assoc.type)))
    /\ assocFrame

\* Delete: an error diagnostic if the client call fails; the orchestrator
\* drops the state when the handler returns without one
AssocDelete ==
    /\ assoc.tracked
    /\ \E plan \in AssocDeletePlans(assoc.type) :
          LET got == AssocDeleteCall(client, assoc, plan)
              noun == CASE assoc.type = "LoadBalancerTarget" -> "target from load balancer"
                        [] assoc.type = "SecurityGroupRule" -> "security group rule"
                        [] assoc.type = "ElasticIPAssociation" -> "Elastic IP"
                        [] assoc.type = "GlobalLBEndpoint" -> "Global LB Endpoint"
              verb == CASE assoc.type \in {"LoadBalancerTarget", "GlobalLBEndpoint"} -> "remove"
                        [] assoc.type = "SecurityGroupRule" -> "delete"
                        [] assoc.type = "ElasticIPAssociation" -> "disassociate"
          IN  Apply("Delete", assoc.type,
                    IF IsErr(got.err) THEN Failed(got, assoc, verb, noun)
                    ELSE Handled(got, "removed", Removed, << >>))
    /\ assocFrame

NextAssoc ==
    \/ AssocCreate
    \/ AssocImport
    \/ AssocRead
    \/ AssocUpdate
    \/ AssocDelete

SpecAssoc == InitConfigured /\ [][NextAssoc]_vars


\* ------------------------------------------------------------------------
\* Properties of the association resources
\* ------------------------------------------------------------------------

\* a Create of one of the types just set the state
Created(types) ==
    /\ lastOp.op = "Create"
    /\ lastOp.outcome = "set"
    /\ lastOp.res \in types
    /\ assoc.tracked

\* the child's key: instance_id, or the id the server gave the new endpoint
ChildKey == IF assoc.type = "GlobalLBEndpoint" THEN ret.entity.id ELSE assoc.child

\* ImportState of the id Create set gives back the parent and child attributes
RoundTrip ==
    LET back == AssocImportOf(assoc.type, Removed, assoc.id)
    IN  /\ back.outcome = "set"
        /\ back.state.parent = assoc.parent
        /\ IF assoc.type = "GlobalLBEndpoint"
               THEN back.state.id = ChildKey
               ELSE back.state.child = assoc.child

\* C13: for every association resource (load-balancer target, Elastic IP
\* association, global-LB endpoint) Create sets id to parentID:childID, and
\* ImportState of that id recovers the same parent and child attributes, for
\* non-empty ids without the delimiter.
C13_CompositeRoundTrip ==
    Created({"LoadBalancerTarget", "ElasticIPAssociation", "GlobalLBEndpoint"}) =>
        /\ assoc.id = CompositeID(assoc.parent, ChildKey)
        /\ RoundTrip

\* the part of C13 the load-balancer target keeps
C13_LBTargetRoundTrip ==
    Created({"LoadBalancerTarget"}) =>
        /\ assoc.id = CompositeID(assoc.parent, assoc.child)
        /\ RoundTrip


\* the positions of the listed items whose member f equals v
Matches(items, f, v) == { i \in 1..Len(items) : items[i][f] = v }

Lowest(S) == CHOOSE i \in S : \A j \in S : i <= j

\* a Read of the type just returned, its client call without error
ReadReturned(type) ==
    /\ lastOp'.op = "Read"
    /\ lastOp'.res = type
    /\ ~IsErr(ret'.err)

\* the resource is kept, port and weight refreshed from the item
KeptWith(item) ==
    assoc' = [assoc EXCEPT !.port = item.port, !.weight = item.weight]

C14_LBTargetScan ==
    ReadReturned("LoadBalancerTarget") =>
        LET listed == ret'.entity
            m == Matches(listed, "instance_id", assoc.child)
        IN  IF m = {} THEN assoc' = Removed ELSE KeptWith(listed[Lowest(m)])

C14_SGRuleScan ==
    ReadReturned("SecurityGroupRule") =>
        IF ret'.entity = Nil THEN assoc' = Removed
        ELSE LET m == Matches(ret'.entity.rules, "id", assoc.id)
             IN  IF m = {} THEN assoc' = Removed
                 ELSE KeptWith(ret'.entity.rules[Lowest(m)])

\* C14: Read of a load-balancer target lists the parent's targets and scans
\* them: it keeps the resource, port and weight refreshed from the first
\* listed target whose instance_id is the held instance_id, and removes the
\* resource exactly when no listed target has it (an empty list and a load
\* balancer that is gone included).  The same rule holds for a security-group
\* rule looked up by id among its group's rules.
C14_AssociationLookup == [][C14_LBTargetScan /\ C14_SGRuleScan]_vars

\* two listed targets carry the held instance_id with different ports, and the
\* Read took the port of the first
C14_Witness ==
    /\ lastOp.op = "Read"
    /\ lastOp.res = "LoadBalancerTarget"
    /\ lastOp.outcome = "set"
    /\ Len(ret.entity) = 2
    /\ ret.entity[1].instance_id = assoc.child
    /\ ret.entity[2].instance_id = assoc.child
    /\ ret.entity[1].port = 8080
    /\ ret.entity[2].port = 80
    /\ assoc.port = 8080


\* ------------------------------------------------------------------------
\* Properties of the envelope codec and the error shapes
\* ------------------------------------------------------------------------

\* one of the client's operations on do just returned, its first request
\* answered with one of the statuses
Answered(ops, statuses) == ret.op \in ops /\ FirstCallAnswered(statuses)

\* the answer's body is a JSON envelope whose "error" is not null
CarriesError == FirstCallBody.kind = "json" /\ FirstCallBody.error.t \in {"string", "object"}

\* C15: for every operation and every HTTP status, if the response envelope
\* carries a non-null error the operation returns an error and decodes no
\* data; an envelope with both data and error populated is reported as the
\* error.
C15_EnvelopeErrorWins ==
    (Answered({"Create", "Get", "Delete"}, FinalStatuses) /\ CarriesError)
        => (IsErr(ret.err) /\ ret.entity = Nil)

\* the part of C15 the code keeps: an operation with a destination, answered
\* with a success status
C15_DecodedEnvelopeErrorWins ==
    (Answered({"Create", "Get"}, {200, 201, 204}) /\ CarriesError)
        => (IsErr(ret.err) /\ ret.entity = Nil)

\* the answer is no JSON envelope at all: an empty or malformed body
NotAnEnvelope == FirstCallBody.kind # "json"

\* the envelope carries no error and a "data" that is no JSON object
DataOfWrongType ==
    /\ FirstCallBody.kind = "json"
    /\ FirstCallBody.error.t \in {"absent", "null"}
    /\ FirstCallBody.data.t \in {"mistyped", "list"}

Names_(stage) == IsErr(ret.err) /\ ret.entity = Nil /\ Contains(ret.err.text, stage)

\* C16 as stated, for every operation: a body that is not a well-formed
\* envelope on a success status other than 404, or data that does not
\* unmarshal, gives a decode error naming the stage
C16_EveryOperationDecodes ==
    Answered({"Create", "Get", "Delete"}, {200, 201, 204}) =>
        /\ NotAnEnvelope => Names_("failed to decode response: ")
        /\ DataOfWrongType => Names_("failed to unmarshal data: ")

\* C16: for every operation that decodes the response into a destination
\* (Create, Get): a body that is not a well-formed JSON envelope on a success
\* status other than 404 gives the error "failed to decode response", data
\* that does not unmarshal into the destination (in an envelope without an
\* error) gives "failed to unmarshal data"; in neither case does the
\* operation return an entity.
C16_DecodingOperationsNameTheStage ==
    Answered({"Create", "Get"}, {200, 201, 204}) =>
        /\ NotAnEnvelope => Names_("failed to decode response: ")
        /\ DataOfWrongType => Names_("failed to unmarshal data: ")

\* a Create answered 201 with an empty body, and its decode error
C16_Witness ==
    /\ Answered({"Create"}, {201})
    /\ FirstCallBody.kind = "empty"
    /\ ret.err = DecodeError
    /\ ret.entity = Nil

\* the message handleError finds in the body, "" if there is none
ServerMessage ==
    IF FirstCallBody.kind # "json" THEN ""
    ELSE IF FirstCallBody.error.t = "string" THEN FirstCallBody.error.text
    ELSE IF FirstCallBody.error.t = "object" /\ FirstCallBody.error.message.t = "string"
        THEN FirstCallBody.error.message.text
    ELSE ""

FirstCallStatus == FirstCallExchanges[Len(FirstCallExchanges)].answer.resp.status

C17_WitnessGeneric ==
    /\ Answered({"Get"}, {501})
    /\ FirstCallBody.kind = "json"
    /\ FirstCallBody.error.t = "object"
    /\ FirstCallBody.error.message.t = "mistyped"
    /\ ret.err.text = << "unexpected status code: ", "501" >>


\* ------------------------------------------------------------------------
\* One logical call, attempt by attempt: the loop of the retrying transport
\* NewClient sets up (retryablehttp.NewClient with RetryMax = 5 and the
\* library's default CheckRetry), then what do makes of its result
\* ------------------------------------------------------------------------

\* what one attempt may be answered with
AttemptResponses ==
    { [status |-> 200, body |-> OKBody([t |-> "object",
                                        fields |-> [id |-> "id-1", name |-> "test-vpc"]])],
      [status |-> 400, body |-> QuotaBody],
      [status |-> 404, body |-> [kind |-> "empty"]],
      [status |-> 429, body |-> [kind |-> "empty"]],
      [status |-> 501, body |-> [kind |-> "empty"]],
      [status |-> 503, body |-> [kind |-> "empty"]] }

AttemptAnswers == { NetErr } \cup { Answer(r) : r \in AttemptResponses }

\* a policy that has every error status tried again
CheckRetry_AnyErrorStatus(answer, retry429) ==
    answer.kind = "neterr" \/ answer.resp.status >= 400

\* the default CheckRetry, which NewClient leaves in place: try again after a
\* network error and after a 5xx other than 501; the library's later releases
\* also try again after a 429, which is what retry429 stands for
CheckRetry(answer, retry429) ==
    \/ answer.kind = "neterr"
    \/ /\ answer.kind = "resp"
       /\ \/ answer.resp.status >= 500 /\ answer.resp.status # 501
          \/ answer.resp.status = 429 /\ retry429

Attempting == lastOp.op = "do" /\ lastOp.attempting

\* the operation that made the call, given what the transport handed to do
CallResult(call, plan) ==
    CASE call = "Create" -> CreateEntity(client, "VPC", plan).ret
      [] call = "Get" -> GetEntity(client, "VPC", "id-1", plan).ret
      [] call = "Delete" -> DeleteEntity(client, "VPC", "id-1", plan).ret

CallRequest(call) ==
    CASE call = "Create" -> BuildRequest(client, "POST", CreatePath("VPC"))
      [] call = "Get" -> BuildRequest(client, "GET", SingletonPath("VPC", "id-1"))
      [] call = "Delete" -> BuildRequest(client, "DELETE", SingletonPath("VPC", "id-1"))

retryFrame == UNCHANGED << client, pollVars, held, atCreate, tfVars, diags >>

\* an operation calls do, which calls c.HTTPClient.Do
DoBegin ==
    /\ ~Attempting
    /\ \E call \in {"Create", "Get", "Delete"}, retry429 \in BOOLEAN :
          lastOp' = [op |-> "do", attempting |-> TRUE, call |-> call, retry429 |-> retry429]
    /\ wire' = << >>
    /\ ret' = NoCall
    /\ retryFrame

\* one attempt and the decision that follows it: another attempt if CheckRetry
\* says so and retries remain, else the transport returns (the response, or
\* its error once the retries are used up) and do returns to the operation
DoAttempt ==
    /\ Attempting
    /\ \E answer \in AttemptAnswers :
          LET sent == Append(wire, [req |-> CallRequest(lastOp.call), answer |-> answer])
              shouldRetry == CheckRetry(answer, lastOp.retry429)
          IN  /\ wire' = sent
              /\ IF shouldRetry /\ Len(sent) <= RetryMax
                     THEN UNCHANGED << ret, lastOp >>
                     ELSE /\ lastOp' = [lastOp EXCEPT !.attempting = FALSE]
                          /\ ret' = CallResult(lastOp.call,
                                               IF shouldRetry THEN AllAttemptsFail
                                               ELSE Once(answer.resp))
    /\ retryFrame

NextRetry ==
    \/ DoBegin
    \/ DoAttempt

SpecRetry == InitConfigured /\ [][NextRetry]_vars

\* an attempt that was sent gets its answer, a response or a network error
SpecRetryFair == SpecRetry /\ WF_vars(DoAttempt)

\* ------------------------------------------------------------------------
\* Properties of the retries
\* ------------------------------------------------------------------------

LastAnswer(w) == w[Len(w)].answer

NetworkErrorOr5xx(answer) == answer.kind = "neterr" \/ answer.resp.status >= 500

TooManyRequests(answer) == answer.kind = "resp" /\ answer.resp.status = 429

\* the call goes on after the attempt just answered
AnotherAttemptFollows == Attempting' /\ Len(wire') = Len(wire) + 1

Returned_ == lastOp.op = "do" /\ ~lastOp.attempting

C18_Bounded == Len(wire) <= RetryMax + 1

C18_Outcome ==
    Returned_ =>
        IF CheckRetry(LastAnswer(wire), lastOp.retry429)
            THEN /\ Len(wire) = RetryMax + 1
                 /\ ret.err = TransportError
                 /\ ret.entity = Nil
            ELSE /\ ret = CallResult(lastOp.call, Once(LastAnswer(wire).resp))
                 /\ LastAnswer(wire).resp.status = 200 => ret.err = NoErr

ClientCalled == lastOp.op \in {"Create", "Read", "Delete"} /\ lastOp.res \in ResKinds

\* the error diagnostic carries every piece of the error's text
DiagCarries(err) ==
    \E i \in 1..Len(diags) :
        /\ diags[i].severity = "error"
        /\ \A k \in 1..Len(err.text) : Contains(diags[i].detail, err.text[k])

C19_ErrorsSurface ==
    ClientCalled =>
        /\ IsErr(lastOp.yielded) => (ret.err = lastOp.yielded /\ ret.entity = Nil)
        /\ IsErr(ret.err) => (lastOp.outcome = "error" /\ DiagCarries(ret.err))

C19_StateKept ==
    (lastOp'.op \in {"Create", "Read", "Delete"} /\ lastOp'.res \in ResKinds /\ IsErr(ret'.err))
        => tfstate' = tfstate

\* C19: whenever Transport or the envelope codec yields an error inside a
\* client operation, the operation returns that error and a nil entity; the
\* Create, Read or Delete handler then adds an error diagnostic carrying the
\* error's text and leaves the tracked state exactly as it was (no State.Set,
\* no RemoveResource).  No error becomes a success at either layer.
C19_ErrorPropagation ==
    /\ [](C19_ErrorsSurface)
    /\ [][C19_StateKept]_vars

\* a Read whose GET failed on every attempt: the transport's error is in the
\* diagnostic and the resource is still tracked
C19_Witness ==
    /\ lastOp.op = "Read"
    /\ lastOp.res = "Cluster"
    /\ lastOp.yielded = TransportError
    /\ ret.err = TransportError
    /\ DiagCarries(TransportError)
    /\ tfstate.tracked
    /\ tfstate.id = "id-1"


-----------------------------------------------------------------------------
(* The provider's Configure: endpoint and API key from the provider block   *)
(* and the environment.                                                    *)

\* what the provider block can say for an attribute, and what an environment
\* variable can hold (os.Getenv gives "" for a variable that is not set)
EndpointValues == {"", "https://api.thecloud.test", "http://staging:8080"}

KeyValues == {"", "key-a", "key-b"}

AttrsOf(values) == {NullAttr, UnknownAttr} \cup { StringValue(v) : v \in values }

DefaultEndpoint == "http://localhost:8080"

\* types.String.IsNull and types.String.ValueString: the string of a known
\* value, "" for null and for unknown
IsNull(attr) == attr.t = "null"

ValueString(attr) == IF attr.t = "value" THEN attr.v ELSE ""

\* the environment variable, replaced by the attribute when that is not null
Resolve(attr, env) == IF ~IsNull(attr) THEN ValueString(attr) ELSE env

\* the endpoint Configure uses: the resolved one, or the default when empty
ResolveEndpoint(p) ==
    LET endpoint == Resolve(p.endpoint, p.env.THECLOUD_ENDPOINT)
    IN  IF endpoint = "" THEN DefaultEndpoint ELSE endpoint

ResolveAPIKey(p) == Resolve(p.api_key, p.env.THECLOUD_API_KEY)

MissingAPIKey ==
    ErrorDiag("Missing API Key",
              << "The provider requires an API key for authentication. Set it via 'api_key' in the provider block or THECLOUD_API_KEY environment variable." >>)

\* before Configure: no client, nothing handed to resources and data sources
InitProvider ==
    /\ InitPoll
    /\ InitHeld
    /\ client = Nil
    /\ wire = << >>
    /\ ret = NoCall
    /\ diags = << >>
    /\ tfstate = Removed
    /\ assoc = Removed
    /\ onServer = NoRemote
    /\ provider \in [ endpoint : AttrsOf(EndpointValues),
                      api_key : AttrsOf(KeyValues),
                      env : [ THECLOUD_ENDPOINT : EndpointValues,
                              THECLOUD_API_KEY : KeyValues ],
                      handed : {FALSE} ]

\* Configure: resolve both values; without an API key add the error and
\* return, else build the client and set resp.DataSourceData and
\* resp.ResourceData to it
Configure ==
    /\ lastOp = NoOp
    /\ LET endpoint == ResolveEndpoint(provider)
           apiKey == ResolveAPIKey(provider)
       IN  IF apiKey = ""
               THEN /\ diags' = << MissingAPIKey >>
                    /\ lastOp' = [op |-> "Configure", res |-> "provider", outcome |-> "error"]
                    /\ UNCHANGED << client, provider >>
               ELSE /\ diags' = << >>
                    /\ client' = NewClient(endpoint, apiKey)
                    /\ provider' = [provider EXCEPT !.handed = TRUE]
                    /\ lastOp' = [op |-> "Configure", res |-> "provider", outcome |-> "set"]
    /\ UNCHANGED << wire, ret, pollVars, held, atCreate, tfstate, assoc, onServer >>

NextProvider == Configure

SpecProvider == InitProvider /\ [][NextProvider]_vars

\* ------------------------------------------------------------------------
\* Properties of the provider configuration
\* ------------------------------------------------------------------------

Configured == lastOp.op = "Configure"

\* the value an attribute supplies: that of a known string, none otherwise
Explicit(attr) == IF attr.t = "value" THEN attr.v ELSE ""

\* the first value of the order that is there
FirstOf(explicit, env, default) ==
    IF explicit # "" THEN explicit
    ELSE IF env # "" THEN env
    ELSE default

OrderedEndpoint ==
    FirstOf(Explicit(provider.endpoint), provider.env.THECLOUD_ENDPOINT, DefaultEndpoint)

OrderedAPIKey == FirstOf(Explicit(provider.api_key), provider.env.THECLOUD_API_KEY, "")

HasMissingAPIKey ==
    \E i \in 1..Len(diags) : diags[i].severity = "error" /\ diags[i].summary = "Missing API Key"

ClientHanded(endpoint, apiKey) == provider.handed /\ client = NewClient(endpoint, apiKey)

NothingHanded == ~provider.handed /\ client = Nil /\ HasMissingAPIKey

\* C20: endpoint and API key are each resolved in the order explicit
\* provider attribute, then environment variable, then default (endpoint
\* only); a client is built from them and handed out if and only if the
\* resolved API key is non-empty, otherwise "Missing API Key" is reported
\* and no client is set; an API key in the environment suffices whenever the
\* explicit value is absent.
C20_ResolutionOrder ==
    Configured =>
        IF OrderedAPIKey # "" THEN ClientHanded(OrderedEndpoint, OrderedAPIKey)
        ELSE NothingHanded

\* what Configure does keep: an attribute that is null gives way to the
\* environment variable, a known non-empty one wins over it, and the client is
\* handed out exactly when no "Missing API Key" error is reported
C20_NullAttributeFallsBack ==
    Configured =>
        /\ provider.handed <=> ~HasMissingAPIKey
        /\ provider.handed <=> client # Nil
        /\ (IsNull(provider.api_key) /\ provider.env.THECLOUD_API_KEY # "")
              => (provider.handed /\ client.APIKey = provider.env.THECLOUD_API_KEY)
        /\ (IsNull(provider.api_key) /\ provider.env.THECLOUD_API_KEY = "") => NothingHanded
        /\ Explicit(provider.api_key) # ""
              => (provider.handed /\ client.APIKey = Explicit(provider.api_key))
        /\ (provider.handed /\ IsNull(provider.endpoint))
              => client.Endpoint = OrderedEndpoint
        /\ (provider.handed /\ Explicit(provider.endpoint) # "")
              => client.Endpoint = Explicit(provider.endpoint)

\* an API key from the environment alone, the attribute being null
C20_EnvKeyReached ==
    /\ Configured
    /\ IsNull(provider.api_key)
    /\ provider.env.THECLOUD_API_KEY = "key-a"
    /\ IsNull(provider.endpoint)
    /\ provider.env.THECLOUD_ENDPOINT = ""
    /\ ClientHanded(DefaultEndpoint, "key-a")


\* ------------------------------------------------------------------------
\* Properties of the composite read of a load balancer
\* ------------------------------------------------------------------------

LBReturned == ret # NoCall /\ ret.op = "Get" /\ ret.kind = "LoadBalancer"

LBRequest == BuildRequest(client, "GET", SingletonPath("LoadBalancer", ret.id))

TargetsRequest == BuildRequest(client, "GET", << "/lb/", ret.id, "/targets" >>)

\* the attempts of the first call and those of the targets call
LBAttempts == { i \in 1..Len(wire) : wire[i].req = LBRequest }

TargetsAttempts == { i \in 1..Len(wire) : wire[i].req = TargetsRequest }

\* the attempts in s are those of one logical call: every one but the last
\* failed transiently, and no more than the transport allows were made
OneCall(s) ==
    /\ s # {}
    /\ Cardinality(s) <= RetryMax + 1
    /\ \A i \in s : (\E j \in s : j > i) =>
           (wire[i].answer.kind = "neterr" \/ wire[i].answer.resp.status >= 500)

LastOf(s) == wire[CHOOSE i \in s : \A j \in s : j <= i].answer

\* the answer leaves the call without a result: no answer at all, an error
\* status other than 404, or a body that does not decode into dest
FailsInto(answer, dest) ==
    \/ answer.kind = "neterr"
    \/ /\ answer.kind = "resp"
       /\ \/ answer.resp.status >= 400 /\ answer.resp.status # 404
          \/ answer.resp.status < 400 /\ IsErr(decodeResponse(answer.resp, dest).err)

Is404(answer) == answer.kind = "resp" /\ answer.resp.status = 404

\* the targets a list answer carries
Listed(answer) ==
    IF ~Is404(answer) /\ answer.resp.body.kind = "json" /\ answer.resp.body.data.t = "list"
        THEN answer.resp.body.data.items
        ELSE << >>

C21_Sequence ==
    LBReturned =>
        /\ LBAttempts \cup TargetsAttempts = 1..Len(wire)
        /\ OneCall(LBAttempts)
        /\ \A i \in LBAttempts, j \in TargetsAttempts : i < j
        /\ IF Is404(LastOf(LBAttempts))
               THEN TargetsAttempts = {} /\ ret.entity = Nil /\ ret.err = NoErr
           ELSE IF FailsInto(LastOf(LBAttempts), "entity")
               THEN TargetsAttempts = {} /\ ret.entity = Nil /\ IsErr(ret.err)
           ELSE /\ OneCall(TargetsAttempts)
                /\ IF FailsInto(LastOf(TargetsAttempts), "list")
                       THEN ret.entity = Nil /\ IsErr(ret.err)
                       ELSE /\ ret.err = NoErr
                            /\ ret.entity # Nil
                            /\ ret.entity.targets = Listed(LastOf(TargetsAttempts))

\* C21: GetLoadBalancer GETs /lb/{id} first; on 404 it returns (nil, nil) and
\* on an error the error, in both cases without the targets call; otherwise
\* it makes exactly one ListLBTargets call for the same id and returns the
\* load balancer with exactly the listed targets, or the list's error and no
\* load balancer.
C21_TwoCallSequence == [](C21_Sequence)

\* both calls answered, the second with one target
C21_Witness ==
    /\ LBReturned
    /\ Cardinality(LBAttempts) = 1
    /\ Cardinality(TargetsAttempts) = 1
    /\ ret.err = NoErr
    /\ ret.entity # Nil
    /\ ret.entity.id = "id-1"
    /\ ret.entity.targets = << [instance_id |-> "i-1", port |-> 80, weight |-> 50] >>


-----------------------------------------------------------------------------
(* One attempt against a server that may never answer.  The client of      *)
(* part_000 sends through an http.Client with Timeout set; NewClient of     *)
(* client.go hands out retryClient.StandardClient(), on which it sets no    *)
(* timeout.  The context of the call has no deadline.                       *)

\* http.Client{Timeout: 30 * time.Second}
RequestTimeout == 30

\* the clock of an attempt advances in steps and is followed up to MaxWait
TimeStep == 10

MaxWait == 60

Versions == {"legacy", "retrying"}

\* Timeout of the http.Client a version sends through; 0 is no timeout
ClientTimeout(version) == IF version = "legacy" THEN RequestTimeout ELSE 0

CallMethod(call) ==
    CASE call = "Create" -> "POST"
      [] call = "Get" -> "GET"
      [] call = "Delete" -> "DELETE"

\* what a server that answers can answer with
WaitAnswers ==
    { NetErr,
      Answer([status |-> 200, body |-> OKBody([t |-> "object",
                                               fields |-> [id |-> "id-1", name |-> "test-vpc"]])]),
      Answer([status |-> 201, body |-> [kind |-> "json", data |-> Absent, error |-> Absent]]),
      Answer([status |-> 503, body |-> [kind |-> "empty"]]) }

Waiting == pc = "attempt"

WaitReturned == pc = "returned"

waitFrame ==
    UNCHANGED << client, nextTick, tickBuf, cancelled, reads, presentReads, readEnd,
                 slowReads, sgRemote, held, atCreate, tfVars, diags >>

\* an operation sends its first attempt
WaitBegin ==
    /\ pc = "idle"
    /\ lastOp = NoOp
    /\ \E version \in Versions, call \in {"Create", "Get", "Delete"},
          server \in {"up", "silent"} :
          lastOp' = [op |-> "do", version |-> version, call |-> call, server |-> server]
    /\ pc' = "attempt"
    /\ now' = 0
    /\ wire' = << >>
    /\ ret' = NoCall
    /\ waitFrame

\* the attempt ended with answer: the retrying transport may send another
\* one, else the operation returns
AfterAttempt(answer) ==
    LET legacy == LegacyCall(client, CallMethod(lastOp.call), "VPC", "id-1", answer)
        req == IF lastOp.version = "legacy" THEN legacy.sent[1].req
               ELSE CallRequest(lastOp.call)
        sent == Append(wire, [req |-> req, answer |-> answer])
        shouldRetry == lastOp.version = "retrying" /\ CheckRetry(answer, FALSE)
    IN  /\ wire' = sent
        /\ UNCHANGED lastOp
        /\ IF shouldRetry /\ Len(sent) <= RetryMax
               THEN pc' = "attempt" /\ now' = 0 /\ UNCHANGED ret
               ELSE /\ pc' = "returned"
                    /\ UNCHANGED now
                    /\ ret' = IF lastOp.version = "legacy" THEN legacy.ret
                              ELSE CallResult(lastOp.call,
                                              IF shouldRetry THEN AllAttemptsFail
                                              ELSE Once(answer.resp))

\* time passes while the attempt is out
WaitTick ==
    /\ Waiting
    /\ now < MaxWait
    /\ ClientTimeout(lastOp.version) > 0 => now < ClientTimeout(lastOp.version)
    /\ now' = now + TimeStep
    /\ UNCHANGED << pc, lastOp, wire, ret >>
    /\ waitFrame

\* the server answers, or the connection fails
WaitAnswer ==
    /\ Waiting
    /\ lastOp.server = "up"
    /\ \E answer \in WaitAnswers : AfterAttempt(answer)
    /\ waitFrame

\* the http.Client's Timeout ends the attempt with an error
WaitTimeout ==
    /\ Waiting
    /\ ClientTimeout(lastOp.version) > 0
    /\ now >= ClientTimeout(lastOp.version)
    /\ AfterAttempt(NetErr)
    /\ waitFrame

NextWait ==
    \/ WaitBegin
    \/ WaitTick
    \/ WaitAnswer
    \/ WaitTimeout

SpecWait == InitConfigured /\ [][NextWait]_vars

\* time passes, a timeout that is due fires, and a server that answers does so
SpecWaitFair ==
    SpecWait /\ WF_vars(WaitTick) /\ WF_vars(WaitTimeout) /\ WF_vars(WaitAnswer)

\* ------------------------------------------------------------------------
\* Properties of the per-request timeout
\* ------------------------------------------------------------------------

\* C22: every client operation eventually returns even if the server never
\* answers: each attempt is bounded by a per-request timeout (30 seconds),
\* after which it counts as a transport failure, so no operation blocks
\* forever on an unresponsive server when the context has no deadline.
C22_EveryCallReturns == Waiting ~> WaitReturned

\* what holds: an operation of the client with the Timeout returns, with the
\* transport's error after 30 seconds when the server is silent, and so does
\* every operation whose attempts are answered
C22_BoundedOrAnsweredReturns ==
    /\ (Waiting /\ (lastOp.version = "legacy" \/ lastOp.server = "up")) ~> WaitReturned
    /\ []((WaitReturned /\ lastOp.server = "silent")
              => (now = RequestTimeout /\ ret.err = TransportError))

\* the attempt of the retrying client still out after MaxWait
C22_StillWaiting ==
    /\ Waiting
    /\ lastOp.version = "retrying"
    /\ lastOp.server = "silent"
    /\ now >= MaxWait


-----------------------------------------------------------------------------
(* An entity encoded as the data of a success envelope and read back by a   *)
(* Create or a Get.                                                        *)

\* the types whose struct has the sensitive member (Secret.Value, APIKey.Key)
SecretKinds == {"Secret", "APIKey"}

\* entity values: each member empty or not, one of them at least not
Entities(kind) ==
    { e \in [ id : {"", "vpc-123"}, name : {"", "test-vpc"},
              secret : (IF kind \in SecretKinds THEN {"", "s3cret"} ELSE {""}),
              targets : (IF kind = "LoadBalancer"
                             THEN { << >> } \cup { << t >> : t \in Targets }
                             ELSE { << >> }) ] :
        e.id # "" \/ e.name # "" \/ e.secret # "" \/ e.targets # << >> }

\* json.Marshal of an entity struct: every member, except that a member
\* tagged omitempty (value, key, targets) is left out when it is empty
Marshal(e) ==
    LET members == {"id", "name"}
                     \cup (IF e.secret # "" THEN {"secret"} ELSE {})
                     \cup (IF e.targets # << >> THEN {"targets"} ELSE {})
    IN  [ t |-> "object", fields |-> [ f \in members |-> e[f] ] ]

\* the server's answer to the call: the envelope with the entity as data
EnvelopePlan(status, e) == Once([status |-> status, body |-> OKBody(Marshal(e))])

\* the answers to the targets call that follows the GET of a load balancer
RoundTripListPlans ==
    { p \in ListPlans :
        /\ p.nFail = 0
        /\ p.final.body.kind \in {"empty", "json"}
        /\ p.final.body.kind = "json" => p.final.body.error = Absent }

InitCodec ==
    /\ InitClient
    /\ client = NewClient("http://localhost:8080", "test-key")
    /\ InitPoll
    /\ held = [r \in ResourceTypes |-> Removed]
    /\ atCreate = [r \in ResourceTypes |-> ""]
    /\ InitTerraform
    /\ diags = << >>
    /\ \E kind \in GetKinds \cup CreateKinds :
          \E e \in Entities(kind) :
             lastOp = [op |-> "encoded", kind |-> kind, original |-> e]

codecFrame == UNCHANGED << client, pollVars, held, atCreate, tfVars, diags >>

\* the entity comes back as the answer to a Create
RoundTripCreate ==
    /\ lastOp.op = "encoded"
    /\ lastOp.kind \in CreateKinds
    /\ LET out == CreateEntity(client, lastOp.kind, EnvelopePlan(201, lastOp.original))
       IN  /\ ret' = out.ret
           /\ wire' = out.sent
    /\ lastOp' = [lastOp EXCEPT !.op = "Create"]
    /\ codecFrame

\* the entity comes back as the answer to a Get
RoundTripGet ==
    /\ lastOp.op = "encoded"
    /\ lastOp.kind \in GetKinds
    /\ \E listPlan \in (IF lastOp.kind = "LoadBalancer" THEN RoundTripListPlans
                        ELSE {NoListPlan}) :
          LET out == ResGet(client, lastOp.kind, "vpc-123",
                            EnvelopePlan(200, lastOp.original), listPlan)
          IN  /\ ret' = out.ret
              /\ wire' = out.sent
    /\ lastOp' = [lastOp EXCEPT !.op = "Get"]
    /\ codecFrame

NextCodec ==
    \/ RoundTripCreate
    \/ RoundTripGet

SpecCodec == InitCodec /\ [][NextCodec]_vars

\* ------------------------------------------------------------------------
\* Properties of the envelope round trip
\* ------------------------------------------------------------------------

RoundTripped == lastOp.op \in {"Create", "Get"} /\ "original" \in DOMAIN lastOp

MemberOf(e, f, zero) == IF f \in DOMAIN e THEN e[f] ELSE zero

\* the entity the operation returned has the members of the original
SameMembers(e, original, members) ==
    \A f \in members :
        MemberOf(e, f, IF f = "targets" THEN << >> ELSE "")
            = MemberOf(original, f, IF f = "targets" THEN << >> ELSE "")

YieldsOriginal ==
    /\ ret.err = NoErr
    /\ ret.entity # Nil
    /\ SameMembers(ret.entity, lastOp.original, {"id", "name", "secret", "targets"})

LBGetRoundTripped == RoundTripped /\ lastOp.op = "Get" /\ lastOp.kind = "LoadBalancer"

C23_WitnessLB ==
    /\ LBGetRoundTripped
    /\ lastOp.original.targets # << >>
    /\ ret.err = NoErr
    /\ ret.entity.targets = << >>


\* ------------------------------------------------------------------------
\* Properties of the import of a composite key
\* ------------------------------------------------------------------------

CompositeImported ==
    lastOp.op = "Import" /\ lastOp.res \in {"LoadBalancerTarget", "GlobalLBEndpoint"}

DelimitersOf(id) == { i \in 1..Len(id) : id[i] = Delimiter }

TheDelimiter(id) == CHOOSE i \in DelimitersOf(id) : TRUE

\* one delimiter, with something on either side of it
WellFormed(id) ==
    /\ Cardinality(DelimitersOf(id)) = 1
    /\ TheDelimiter(id) \notin {1, Len(id)}

FirstPart(id) == SubSeq(id, 1, TheDelimiter(id) - 1)

SecondPart(id) == SubSeq(id, TheDelimiter(id) + 1, Len(id))

HasImportError ==
    \E i \in 1..Len(diags) :
        diags[i].severity = "error" /\ diags[i].summary = "Unexpected Import Identifier"

\* C24: ImportState of a load-balancer target or a global-LB endpoint takes
\* an identifier only if splitting it on ":" gives exactly two non-empty
\* parts; for any other identifier it adds "Unexpected Import Identifier"
\* and sets no attribute.  On acceptance the parent key is the first part and
\* the child key the second.
C24_CompositeImport ==
    CompositeImported =>
        IF WellFormed(lastOp.given)
            THEN /\ lastOp.outcome = "set"
                 /\ ~HasImportError
                 /\ assoc.tracked
                 /\ assoc.parent = FirstPart(lastOp.given)
                 /\ IF lastOp.res = "GlobalLBEndpoint"
                        THEN assoc.id = SecondPart(lastOp.given)
                        ELSE assoc.child = SecondPart(lastOp.given)
            ELSE /\ lastOp.outcome = "error"
                 /\ HasImportError
                 /\ assoc = Removed

\* "a:b" imported as a global-LB endpoint
C24_Witness ==
    /\ CompositeImported
    /\ lastOp.res = "GlobalLBEndpoint"
    /\ lastOp.given = << "a", Delimiter, "b" >>
    /\ assoc.tracked
    /\ assoc.parent = << "a" >>
    /\ assoc.id = << "b" >>

\* an identifier with an empty part is turned down
C24_WitnessRejected ==
    /\ CompositeImported
    /\ lastOp.given = << "a", Delimiter >>
    /\ HasImportError
    /\ assoc = Removed


\* ------------------------------------------------------------------------
\* Properties of the order of a scaling group's Delete
\* ------------------------------------------------------------------------

\* the diagnostic of a DELETE that failed
HasDeleteError ==
    \E i \in 1..Len(diags) :
        /\ diags[i].severity = "error"
        /\ Contains(diags[i].detail, "Unable to delete scaling group, got error: ")

\* a polling Read is issued in this step
ReadIssued == reads' = reads + 1

C25_DeleteFirst == pc = "idle" => reads = 0

C25_NoReadAfterFailedDelete ==
    /\ pc = "DeleteFailed" => HasDeleteError
    /\ HasDeleteError => (pc = "DeleteFailed" /\ reads = 0)

C25_ReadsFollowTicks ==
    ReadIssued =>
        /\ pc = "select"
        /\ ~HasDeleteError
        /\ now >= TickSeconds * (reads + 1)

\* C25: Delete sends the DELETE before any polling Read; if the DELETE
\* returns an error, Delete adds an error diagnostic and issues no polling
\* Read at all; the first polling Read is issued only after one full tick
\* interval since polling started, never right after the DELETE.
C25_DeleteOrdering ==
    /\ [](C25_DeleteFirst /\ C25_NoReadAfterFailedDelete)
    /\ [][C25_ReadsFollowTicks]_vars

\* the first polling Read, issued at the first tick
C25_Witness ==
    /\ pc = "reading"
    /\ reads = 1
    /\ now = TickSeconds
    /\ ~HasDeleteError

\* the DELETE failed: the diagnostic, and no Read
C25_WitnessFailed ==
    /\ pc = "DeleteFailed"
    /\ HasDeleteError
    /\ reads = 0


-----------------------------------------------------------------------------
(* ClusterResource.Update: internal/resources/cluster.go, with ScaleCluster *)
(* and UpgradeCluster of the client.                                       *)

WorkerCounts == {1, 2, 3}

ClusterVersions == {"v1.29", "v1.30"}

\* the cluster in the orchestrator's state
ClusterState(id, workers, version) ==
    [ tracked |-> TRUE, type |-> "Cluster", id |-> id, worker_count |-> workers,
      version |-> version ]

\* the cluster on the server
ClusterOnServer(workers, version) == [exists |-> TRUE, workers |-> workers, version |-> version]

\* how the server answers a scale or an upgrade
ChangePlans ==
    { AllAttemptsFail,
      Once([status |-> 200, body |-> [kind |-> "json", data |-> Absent, error |-> Absent]]),
      Once([status |-> 204, body |-> [kind |-> "empty"]]),
      Once([status |-> 400, body |-> QuotaBody]),
      Once([status |-> 404, body |-> [kind |-> "empty"]]) }

\* the server carries out the requests it answers with a success status
Applies(plan) == plan.nFail <= RetryMax /\ plan.final.status < 400

ScalePath(id) == << "/clusters/", id, "/scale" >>

UpgradePath(id) == << "/clusters/", id, "/upgrade" >>

\* ScaleCluster: POST /clusters/{id}/scale, nothing decoded
ScaleCluster(c, id, plan) ==
    LET r == do(c, "POST", ScalePath(id), "none", plan)
    IN  [ ret |-> Returned("Scale", "Cluster", id, Nil, r.err, 1), sent |-> r.sent ]

\* UpgradeCluster: POST /clusters/{id}/upgrade, nothing decoded
UpgradeCluster(c, id, plan) ==
    LET r == do(c, "POST", UpgradePath(id), "none", plan)
    IN  [ ret |-> Returned("Upgrade", "Cluster", id, Nil, r.err, 1), sent |-> r.sent ]

\* a comparison that takes every planned value for a change
Differs_Always(planned, prior) == TRUE

\* !plan.X.Equal(state.X)
Differs(planned, prior) == planned # prior

InitCluster ==
    /\ InitClient
    /\ client = NewClient("http://localhost:8080", "test-key")
    /\ InitPoll
    /\ InitHeld
    /\ diags = << >>
    /\ assoc = Removed
    /\ provider = [ endpoint |-> StringValue(client.Endpoint),
                    api_key |-> StringValue(client.APIKey),
                    env |-> [THECLOUD_ENDPOINT |-> "", THECLOUD_API_KEY |-> ""],
                    handed |-> TRUE ]
    /\ \E w \in WorkerCounts, v \in ClusterVersions :
          /\ tfstate = ClusterState("id-1", w, v)
          /\ onServer = ClusterOnServer(w, v)

clusterFrame == UNCHANGED << client, pollVars, held, atCreate, assoc, provider >>

\* Update: scale if worker_count changed, return on its error; upgrade if
\* version changed, return on its error; else resp.State.Set of the plan
ClusterUpdate ==
    /\ tfstate.tracked
    /\ tfstate.type = "Cluster"
    /\ \E w \in WorkerCounts, v \in ClusterVersions,
          scalePlan \in ChangePlans, upgradePlan \in ChangePlans :
          LET planned == ClusterState(tfstate.id, w, v)
              scales == Differs(planned.worker_count, tfstate.worker_count)
              scale == ScaleCluster(client, tfstate.id, scalePlan)
              scaleFailed == scales /\ IsErr(scale.ret.err)
              upgrades == ~scaleFailed /\ Differs(planned.version, tfstate.version)
              upgrade == UpgradeCluster(client, tfstate.id, upgradePlan)
              upgradeFailed == upgrades /\ IsErr(upgrade.ret.err)
              scaleSent == IF scales THEN scale.sent ELSE << >>
              upgradeSent == IF upgrades THEN upgrade.sent ELSE << >>
          IN  /\ \/ scales \/ scalePlan = AllAttemptsFail
              /\ \/ upgrades \/ upgradePlan = AllAttemptsFail
              /\ wire' = scaleSent \o upgradeSent
              /\ ret' = IF upgrades THEN upgrade.ret
                        ELSE IF scales THEN scale.ret
                        ELSE NoCall
              /\ onServer' =
                    [ onServer EXCEPT
                        !.workers = IF scales /\ Applies(scalePlan) THEN w ELSE @,
                        !.version = IF upgrades /\ Applies(upgradePlan) THEN v ELSE @ ]
              /\ lastOp' = [ op |-> "Update", res |-> "Cluster",
                             outcome |-> IF scaleFailed \/ upgradeFailed THEN "error" ELSE "set",
                             plan |-> planned, prior |-> tfstate ]
              /\ IF scaleFailed
                     THEN /\ diags' = << ClientErrorDiag("scale", "Cluster", scale.ret.err) >>
                          /\ UNCHANGED tfstate
                 ELSE IF upgradeFailed
                     THEN /\ diags' = << ClientErrorDiag("upgrade", "Cluster", upgrade.ret.err) >>
                          /\ UNCHANGED tfstate
                 ELSE /\ diags' = << >>
                      /\ tfstate' = planned
    /\ clusterFrame

NextCluster == ClusterUpdate

SpecCluster == InitCluster /\ [][NextCluster]_vars

\* ------------------------------------------------------------------------
\* Properties of the cluster's Update
\* ------------------------------------------------------------------------

ClusterUpdated == lastOp.op = "Update" /\ lastOp.res = "Cluster"

ScaleRequest == BuildRequest(client, "POST", ScalePath(lastOp.prior.id))

UpgradeRequest == BuildRequest(client, "POST", UpgradePath(lastOp.prior.id))

ScaleAttempts == { i \in 1..Len(wire) : wire[i].req = ScaleRequest }

UpgradeAttempts == { i \in 1..Len(wire) : wire[i].req = UpgradeRequest }

\* the call whose attempts are s came back with an error; nothing is decoded,
\* so only the lack of an answer or an error status other than 404 fails it
CallFailed(s) ==
    /\ s # {}
    /\ \/ LastOf(s).kind = "neterr"
       \/ LastOf(s).kind = "resp" /\ LastOf(s).resp.status >= 400 /\ ~Is404(LastOf(s))

C26_Calls ==
    ClusterUpdated =>
        /\ ScaleAttempts \cup UpgradeAttempts = 1..Len(wire)
        /\ ScaleAttempts # {} <=> lastOp.plan.worker_count # lastOp.prior.worker_count
        /\ UpgradeAttempts # {} <=>
              (lastOp.plan.version # lastOp.prior.version /\ ~CallFailed(ScaleAttempts))
        /\ \A i \in ScaleAttempts, j \in UpgradeAttempts : i < j
        /\ \A s \in {ScaleAttempts, UpgradeAttempts} : s # {} => OneCall(s)
        /\ IF CallFailed(ScaleAttempts) \/ CallFailed(UpgradeAttempts)
               THEN lastOp.outcome = "error" /\ HasErrorDiag /\ tfstate = lastOp.prior
               ELSE lastOp.outcome = "set" /\ ~HasErrorDiag /\ tfstate = lastOp.plan

\* C26: Update calls ScaleCluster if and only if the planned worker_count
\* differs from the held one, and UpgradeCluster if and only if the planned
\* version differs and no earlier call of this Update failed; scale comes
\* before upgrade; the state is set to the plan only when every call made
\* succeeded, and when nothing differs no request is sent and the state is set
\* to the plan.
C26_ClusterUpdate == [](C26_Calls)

\* both attributes changed, both calls made in order, the plan stored
C26_Witness ==
    /\ ClusterUpdated
    /\ lastOp.plan.worker_count # lastOp.prior.worker_count
    /\ lastOp.plan.version # lastOp.prior.version
    /\ ScaleAttempts = {1}
    /\ UpgradeAttempts = {2}
    /\ tfstate = lastOp.plan
    /\ diags = << >>

\* nothing changed: no request, the plan stored
C26_WitnessNoChange ==
    /\ ClusterUpdated
    /\ lastOp.plan = lastOp.prior
    /\ wire = << >>
    /\ tfstate = lastOp.plan

\* C29: if an Update that calls the server ends with an error diagnostic,
\* nothing it asked for has been applied on the server, so the held state,
\* left as it was, still agrees with the server on worker_count and version.
C29_UpdateAtomic ==
    [][(lastOp'.op = "Update" /\ lastOp'.outcome = "error")
          => (onServer' = onServer /\ tfstate' = tfstate)]_vars

\* what holds: an Update that ends with an error leaves the held state alone,
\* and the server unchanged too when it was the first call that failed
C29_FirstFailureChangesNothing ==
    [][(lastOp'.op = "Update" /\ lastOp'.outcome = "error")
          => /\ tfstate' = tfstate
             /\ ret'.op = "Scale" => onServer' = onServer]_vars

\* the scale went through and the upgrade failed: an error, the old state,
\* and the new worker count on the server
C29_HalfApplied ==
    /\ ClusterUpdated
    /\ lastOp.outcome = "error"
    /\ tfstate = lastOp.prior
    /\ onServer.workers = lastOp.plan.worker_count
    /\ onServer.workers # tfstate.worker_count
    /\ onServer.version = tfstate.version


\* ------------------------------------------------------------------------
\* What a successful Create was decoded from
\* ------------------------------------------------------------------------

CreateSucceeded == ret.op = "Create" /\ ~IsErr(ret.err)

\* the answer is a success response whose envelope has a data object
SuccessWithData(answer) ==
    /\ answer.kind = "resp"
    /\ answer.resp.status < 400
    /\ answer.resp.body.kind = "json"
    /\ answer.resp.body.data \in DataObjects

\* C27: whenever a Create operation returns without error, the entity it
\* returns was decoded from the data of a success response to the POST; a
\* POST answered 404, or with a 2xx envelope without data, does not make a
\* successful Create with a zero-valued entity.
C27_CreateDecodedFromData ==
    CreateSucceeded =>
        /\ SuccessWithData(LastAnswer(wire))
        /\ ret.entity = UnmarshalEntity(LastAnswer(wire).resp.body.data)

\* what holds: a successful Create was answered 404, or with a success
\* envelope without error, and its entity is the zero value unless the
\* envelope had a data object
C27_CreateDecodedOrZero ==
    CreateSucceeded =>
        /\ LastAnswer(wire).kind = "resp"
        /\ \/ Is404(LastAnswer(wire))
           \/ /\ LastAnswer(wire).resp.status < 400
              /\ LastAnswer(wire).resp.body.kind = "json"
              /\ ~CarriesError
        /\ ret.entity = IF SuccessWithData(LastAnswer(wire))
                            THEN UnmarshalEntity(LastAnswer(wire).resp.body.data)
                            ELSE ZeroEntity

\* a POST answered 404: Create returns the zero entity and no error
C27_Create404 ==
    /\ CreateSucceeded
    /\ Is404(LastAnswer(wire))
    /\ ret.entity = ZeroEntity

\* a 201 envelope with neither data nor error: the same
C27_CreateNoData ==
    /\ CreateSucceeded
    /\ LastAnswer(wire).resp.status = 201
    /\ LastAnswer(wire).resp.body.kind = "json"
    /\ LastAnswer(wire).resp.body.data = Absent
    /\ ret.entity = ZeroEntity

\* the Create handler stores the empty id such a Create returns
C27_EmptyIdStored ==
    /\ lastOp.op = "Create"
    /\ lastOp.outcome = "set"
    /\ ret.entity = ZeroEntity
    /\ tfstate.tracked
    /\ tfstate.id = ""


\* ------------------------------------------------------------------------
\* The key of the Read that follows ImportState
\* ------------------------------------------------------------------------

\* a Read right after an ImportState that set the state
ReadAfterImport == lastOp.op = "Import" /\ lastOp.outcome = "set" /\ lastOp'.op = "Read"

\* the key the imported identifier stands for: the parent's id for a type
\* with a composite key, the identifier itself otherwise
ImportedKey ==
    IF lastOp.res \in {"LoadBalancerTarget", "GlobalLBEndpoint"}
        THEN Split(lastOp.given, Delimiter)[1]
        ELSE lastOp.given

\* C28: after ImportState(externalID) succeeds, the next Read queries the
\* server with the key derived from externalID, never with an unset or empty
\* key; for the Elastic-IP association the Read looks up the Elastic IP whose
\* id is the imported id.
C28_ReadUsesImportedKey ==
    [][ReadAfterImport => (ret'.id # << >> /\ ret'.id = ImportedKey)]_vars

\* what holds: the types that take their key apart on import read with it
C28_CompositeReadUsesImportedKey ==
    [][(ReadAfterImport /\ lastOp.res \in {"LoadBalancerTarget", "GlobalLBEndpoint"})
          => (ret'.id # << >> /\ ret'.id = ImportedKey)]_vars

\* the Read of an imported Elastic IP association asked for the Elastic IP ""
C28_ReadWithEmptyKey ==
    /\ lastOp.op = "Read"
    /\ lastOp.res = "ElasticIPAssociation"
    /\ ret.op = "GetElasticIP"
    /\ ret.id = << >>


\* ------------------------------------------------------------------------
\* What a Delete without error has sent
\* ------------------------------------------------------------------------

\* a Delete handler returned without an error diagnostic
DeletedCleanly == lastOp.op = "Delete" /\ ~HasErrorDiag

\* the handler's removal call was made and came back without error
RemovalAnswered == ret # NoCall /\ ret.op = "Delete" /\ ~IsErr(ret.err)

\* C30: for every resource type, a Delete that finishes without an error
\* diagnostic has sent the removal request for the resource's key and got it
\* answered without error; no Delete reports success without having issued
\* the request.
C30_DeleteSendsRemoval == DeletedCleanly => RemovalAnswered

\* what holds: every type but the tenant
C30_DeleteSendsRemovalButTenant ==
    [][(DeletedCleanly' /\ lastOp'.res # "Tenant") => (RemovalAnswered' /\ ret'.id = tfstate.id)]_vars

\* the tenant is dropped from the state and nothing was sent
C30_TenantDropped ==
    /\ DeletedCleanly
    /\ lastOp.res = "Tenant"
    /\ ret = NoCall
    /\ ~tfstate.tracked

=============================================================================
